---- MODULE Spec2Model ----
(***************************************************************************)
(* Model of the climate-risk assessment core:                              *)
(*   - app/brave_search.py: AdaptiveDocumentSearch (adaptive search loop,  *)
(*     relevance filter),                                                  *)
(*   - app/assessment_engine_batched.py: BatchedAssessmentEngine (batch    *)
(*     table, response parser, score aggregation, process_company).       *)
(*                                                                         *)
(* Text is modelled as a sequence of word tokens (the words of the Python  *)
(* string, separated by blanks); Python's substring test `a in b` is the   *)
(* contiguous-subsequence test Contains(b, a), and str.lower() maps each   *)
(* token to its lower-case form.  A Python dict is a TLA+ function from    *)
(* its keys to its values.                                                 *)
(***************************************************************************)
EXTENDS Integers, Sequences, FiniteSets, Bags, TLC

VARIABLES
    \* ---- AdaptiveDocumentSearch.search ----
    max_iterations,            \* self.max_iterations
    max_documents,             \* self.max_documents
    company_name_variations,   \* self.company_name_variations
    isin,                      \* the isin argument (None or a token)
    all_documents,             \* search(): all_documents, URL -> result
    iteration,                 \* search(): iteration
    consecutive_no_new_docs,   \* search(): consecutive_no_new_docs
    queries,                   \* search(): queries of the running iteration
    query_pos,                 \* _search_iteration(): queries already executed
    all_results,               \* _search_iteration(): all_results
    returned,                  \* the list search() returned (as a bag)
    search_pc,                 \* position in search()
    repeats,                   \* history: how accepted URLs have come again
    outcomes,                  \* history: how the queries of the running iteration ended
    \* ---- AdaptiveDocumentSearch._should_filter on one hit ----
    f_url, f_title, f_snippet, \* the hit
    f_isin,                    \* the isin argument
    f_variations,              \* self.company_name_variations
    f_verdict,                 \* "pending", or what _should_filter returned
    f_base,                    \* the hit before a context keyword was added
    \* ---- BatchedAssessmentEngine._parse_batch_response on one response ----
    p_response,                \* response_text
    p_measure_ids,             \* measure_ids
    p_result,                  \* what the call returned, or that it raised
    p_pc,                      \* "call" before the call, "done" after it
    \* ---- BatchedAssessmentEngine._build_assessment_data ----
    a_measures,                \* all_measures, in the order M01..M44
    a_arrival,                 \* the same measure results in another arrival order
    a_data,                    \* assessment data built from a_measures
    a_data2,                   \* assessment data built from a_arrival
    a_pc,                      \* "call" before the calls, "done" after them
    \* ---- BatchedAssessmentEngine.process_company, and the database ----
    pr_pc,                     \* position in process_company
    batch_num,                 \* number of batches processed
    pr_all_measures,           \* process_company's all_measures
    pr_exc,                    \* the exception the except branch handles
    job_status,                \* assessment_jobs.status of the job
    job_error,                 \* assessment_jobs.error_message of the job
    assessments,               \* rows of the assessments table, oldest first
    propagated,                \* the exception that leaves process_company
    success,                   \* what AssessmentWorker.process_job returns
    \* ---- AdaptiveDocumentSearch._discover_name_variations ----
    n_company_name,            \* the company_name argument, a sequence of characters
    n_isin,                    \* the isin argument
    n_variations,              \* self.company_name_variations
    n_matched,                 \* number of regex matches taken from the ISIN search
    n_pc,                      \* position in the name-variation resolution
    \* ---- _format_search_with_urls, _build_batch_prompt ----
    b_results,                 \* all_search_results, as discovery returned them
    b_processprompt,           \* processprompt_content
    b_context,                 \* search_context
    b_prompts,                 \* the batch prompts built so far
    b_pc,                      \* "format", then "build", then "done"
    \* ---- AssessmentWorker.run and the assessment_jobs table ----
    q_status,                  \* assessment_jobs.status by job id ("none": no such row)
    q_rows,                    \* number of rows of the assessments table by job id
    q_claims,                  \* history: how often get_pending_jobs returned the job
    q_lock,                    \* the worker whose open transaction locks the row (0: none)
    w_pc,                      \* by worker: "poll", "commit", "process" or "stopped"
    w_job,                     \* by worker: the job it holds (0: none)
    consecutive_errors,        \* by worker: run()'s consecutive_errors
    \* ---- AdaptiveDocumentSearch._generate_queries in two runs ----
    g_company,                 \* the company (name and its words)
    g_isin,                    \* isin argument
    g_variations,              \* self.company_name_variations (a set)
    g_iteration,               \* iteration_num argument
    g_pc,                      \* by run: start, generate or done
    g_order,                   \* by run: the order in which the run's set iterates
    g_queries,                 \* by run: the list returned
    \* ---- submit_assessments_for_companies, called concurrently ----
    s_jobs,                    \* the rows of assessment_jobs: company_id and status
    s_pc,                      \* by caller: idle, check or create
    s_company,                 \* by caller: the company the loop is at
    s_calls,                   \* by caller: calls made so far
    s_results                  \* by caller: results['submitted'], ['skipped'], ['errors']

search_vars == <<max_iterations, max_documents, company_name_variations, isin,
                 all_documents, iteration, consecutive_no_new_docs, queries,
                 query_pos, all_results, returned, search_pc, repeats, outcomes>>

filter_vars == <<f_url, f_title, f_snippet, f_isin, f_variations, f_verdict, f_base>>

parse_vars == <<p_response, p_measure_ids, p_result, p_pc>>

agg_vars == <<a_measures, a_arrival, a_data, a_data2, a_pc>>

proc_vars ==
    <<pr_pc, batch_num, pr_all_measures, pr_exc, job_status, job_error, assessments,
      propagated, success>>

name_vars == <<n_company_name, n_isin, n_variations, n_matched, n_pc>>

prompt_vars == <<b_results, b_processprompt, b_context, b_prompts, b_pc>>

worker_vars ==
    <<q_status, q_rows, q_claims, q_lock, w_pc, w_job, consecutive_errors>>

query_vars == <<g_company, g_isin, g_variations, g_iteration, g_pc, g_order, g_queries>>

submit_vars == <<s_jobs, s_pc, s_company, s_calls, s_results>>

vars ==
    <<search_vars, filter_vars, parse_vars, agg_vars, proc_vars, name_vars, prompt_vars,
      worker_vars, query_vars, submit_vars>>

\* what each part of the model leaves unchanged
not_search == <<filter_vars, parse_vars, agg_vars, proc_vars, name_vars, prompt_vars, worker_vars,
      query_vars, submit_vars>>
not_filter == <<search_vars, parse_vars, agg_vars, proc_vars, name_vars, prompt_vars, worker_vars,
      query_vars, submit_vars>>
not_parse == <<search_vars, filter_vars, agg_vars, proc_vars, name_vars, prompt_vars, worker_vars,
      query_vars, submit_vars>>
not_agg == <<search_vars, filter_vars, parse_vars, proc_vars, name_vars, prompt_vars, worker_vars,
      query_vars, submit_vars>>
not_proc == <<search_vars, filter_vars, parse_vars, agg_vars, name_vars, prompt_vars, worker_vars,
      query_vars, submit_vars>>
not_name == <<search_vars, filter_vars, parse_vars, agg_vars, proc_vars, prompt_vars, worker_vars,
      query_vars, submit_vars>>
not_prompt ==
    <<search_vars, filter_vars, parse_vars, agg_vars, proc_vars, name_vars, worker_vars,
      query_vars, submit_vars>>
not_worker ==
    <<search_vars, filter_vars, parse_vars, agg_vars, proc_vars, name_vars, prompt_vars,
      query_vars, submit_vars>>
not_query ==
    <<search_vars, filter_vars, parse_vars, agg_vars,
      proc_vars, name_vars, prompt_vars, worker_vars,
      submit_vars>>
not_submit ==
    <<search_vars, filter_vars, parse_vars, agg_vars,
      proc_vars, name_vars, prompt_vars, worker_vars, query_vars>>

None == "None"

\* {} (a dict)
EmptyDict == [k \in {} |-> None]

\* the parts of the model that a specification does not exercise stay idle
SearchIdle ==
    /\ max_iterations = 0 /\ max_documents = 0
    /\ company_name_variations = {} /\ isin = None
    /\ all_documents = EmptyDict /\ iteration = 0 /\ consecutive_no_new_docs = 0
    /\ queries = << >> /\ query_pos = 0 /\ all_results = EmptyDict
    /\ returned = EmptyBag /\ search_pc = "idle" /\ repeats = {}
    /\ outcomes = << >>

FilterIdle ==
    /\ f_url = << >> /\ f_title = << >> /\ f_snippet = << >>
    /\ f_isin = None /\ f_variations = {} /\ f_verdict = "idle"
    /\ f_base = [has |-> FALSE, snippet |-> << >>, verdict |-> "idle"]

ParseIdle ==
    /\ p_response = [t |-> "none"] /\ p_measure_ids = << >>
    /\ p_result = [raised |-> FALSE, measures |-> EmptyDict] /\ p_pc = "idle"

NoData ==
    [overall_risk_rating |-> "none", physical_risk_score |-> 0,
     transition_risk_score |-> 0, measures |-> << >>, total_measures_assessed |-> 0,
     assessment_method |-> "none"]

AggIdle ==
    /\ a_measures = << >> /\ a_arrival = << >>
    /\ a_data = NoData /\ a_data2 = NoData /\ a_pc = "idle"

\* no exception is being handled or has been raised
NoException == [type |-> "none", msg |-> ""]
\* error_message is NULL
NoMessage == [t |-> "null"]

ProcIdle ==
    /\ pr_pc = "idle" /\ batch_num = 0 /\ pr_all_measures = << >>
    /\ pr_exc = NoException /\ job_status = "none" /\ job_error = NoMessage
    /\ assessments = << >>
    /\ propagated = NoException /\ success = "none"

NameIdle ==
    /\ n_company_name = << >> /\ n_isin = None /\ n_variations = {}
    /\ n_matched = 0 /\ n_pc = "idle"

PromptIdle ==
    /\ b_results = << >> /\ b_processprompt = << >> /\ b_context = << >>
    /\ b_prompts = << >> /\ b_pc = "idle"

WorkerIdle ==
    /\ q_status = << >> /\ q_rows = << >> /\ q_claims = << >> /\ q_lock = << >>
    /\ w_pc = << >> /\ w_job = << >> /\ consecutive_errors = << >>

QueryIdle ==
    /\ g_company = << >>
    /\ g_isin = << >>
    /\ g_variations = << >>
    /\ g_iteration = << >>
    /\ g_pc = << >>
    /\ g_order = << >>
    /\ g_queries = << >>

SubmitIdle ==
    /\ s_jobs = << >>
    /\ s_pc = << >>
    /\ s_company = << >>
    /\ s_calls = << >>
    /\ s_results = << >>

Idle(part) ==
    /\ part = "submit" \/ SubmitIdle
    /\ part = "query" \/ QueryIdle
    /\ part = "worker" \/ WorkerIdle
    /\ part = "prompt" \/ PromptIdle
    /\ part = "name" \/ NameIdle
    /\ part = "proc" \/ ProcIdle
    /\ part = "agg" \/ AggIdle
    /\ part = "search" \/ SearchIdle
    /\ part = "filter" \/ FilterIdle
    /\ part = "parse" \/ ParseIdle

-----------------------------------------------------------------------------
(* Bounds of the model *)

\* longest measure_ids list _parse_batch_response is called with
MaxIds == 2
\* longest snippet (in tokens) _should_filter is applied to
MaxSnippetLen == 2
\* number of distinct relevant URLs the mocked search capability knows
NUrls == 5
\* largest max_iterations a session is constructed with
MaxIterBound == 4
\* the small max_documents a session may be constructed with
SmallMaxDocs == 2
MaxScore == 4
MaxNameLen == 4
MaxMatchLen == 2
MaxMatches == 1
MaxResults == 2
NJobs == 3
NWorkers == 2
MaxErrors == 6
MaxIterationNum == 11
NCompanies == 2
NCallers == 2
MaxCalls == 2
MaxJobRows == 4

-----------------------------------------------------------------------------
(* Text: sequences of tokens *)

\* str.lower() on one token
LowerTok(t) ==
    CASE t = "Acme" -> "acme"
      [] t = "ACME" -> "acme"
      [] t = "Climate" -> "climate"
      [] t = "Risk" -> "risk"
      [] t = "Introduction" -> "introduction"
      [] t = "To" -> "to"
      [] t = "US0000000000" -> "us0000000000"
      [] t = "Wikipedia.org" -> "wikipedia.org"
      [] t = "HTTPS" -> "https"
      [] t = "Acme.com" -> "acme.com"
      [] OTHER -> t

\* str.lower()
Lower(text) == [i \in 1..Len(text) |-> LowerTok(text[i])]

\* Python `phrase in text`
Contains(text, phrase) ==
    \E i \in 0..(Len(text) - Len(phrase)) :
        \A j \in 1..Len(phrase) : text[i + j] = phrase[j]

\* brave_search.py GENERIC_DOMAINS
GENERIC_DOMAINS ==
    {"ipcc.ch", "unfccc.int", "epa.gov", "nasa.gov", "noaa.gov",
     "wikipedia.org", "britannica.com", "investopedia.com",
     "worldbank.org", "imf.org", "oecd.org", "un.org",
     "climate.gov", "carbonbrief.org", "climatecentral.org"}

\* brave_search.py GENERIC_KEYWORDS
GENERIC_KEYWORDS ==
    {<<"what", "is", "climate", "change">>, <<"climate", "change", "explained">>,
     <<"introduction", "to">>, <<"overview", "of">>, <<"guide", "to">>,
     <<"climate", "science">>, <<"global", "warming", "basics">>}

\* _should_filter: climate_keywords
climate_keywords ==
    {"climate", "sustainability", "esg", "environmental",
     "tcfd", "cdp", "carbon", "emissions", "risk"}

\* mutant: a name variation is accepted without a context keyword
ShouldFilterNameOnly(url, title, snippet, id, variations) ==
    LET combined_text == Lower(title \o snippet)
    IN  IF \E domain \in GENERIC_DOMAINS : Contains(Lower(url), <<domain>>)
        THEN TRUE
        ELSE IF \E keyword \in GENERIC_KEYWORDS :
                    Contains(Lower(title), keyword) \/ Contains(Lower(snippet), keyword)
        THEN TRUE
        ELSE IF id # None /\ Contains(combined_text, Lower(<<id>>))
        THEN FALSE
        ELSE ~(\E variation \in variations : Contains(combined_text, variation))

\* mutant: the identifier is looked up in its upper-case form
ShouldFilterIsinCase(url, title, snippet, id, variations) ==
    LET combined_text == Lower(title \o snippet)
    IN  IF \E domain \in GENERIC_DOMAINS : Contains(Lower(url), <<domain>>)
        THEN TRUE
        ELSE IF \E keyword \in GENERIC_KEYWORDS :
                    Contains(Lower(title), keyword) \/ Contains(Lower(snippet), keyword)
        THEN TRUE
        ELSE IF id # None /\ Contains(combined_text, <<id>>)
        THEN FALSE
        ELSE ~(\E variation \in variations :
                    /\ Contains(combined_text, variation)
                    /\ \E kw \in climate_keywords : Contains(combined_text, <<kw>>))

\* mutant: the identifier and name rules are tried before the rejection rules
ShouldFilterAcceptFirst(url, title, snippet, id, variations) ==
    LET combined_text == Lower(title \o snippet)
    IN  IF id # None /\ Contains(combined_text, Lower(<<id>>))
        THEN FALSE
        ELSE IF \E variation \in variations :
                    /\ Contains(combined_text, variation)
                    /\ \E kw \in climate_keywords : Contains(combined_text, <<kw>>)
        THEN FALSE
        ELSE TRUE

\* _should_filter(url, title, snippet, company_name, isin): TRUE = reject
ShouldFilter(url, title, snippet, id, variations) ==
    LET combined_text == Lower(title \o snippet)
    IN  IF \E domain \in GENERIC_DOMAINS : Contains(Lower(url), <<domain>>)
        THEN TRUE
        ELSE IF \E keyword \in GENERIC_KEYWORDS :
                    Contains(Lower(title), keyword) \/ Contains(Lower(snippet), keyword)
        THEN TRUE
        ELSE IF id # None /\ Contains(combined_text, Lower(<<id>>))
        THEN FALSE
        ELSE IF variations # {}
        THEN IF \E variation \in variations :
                    /\ Contains(combined_text, variation)
                    /\ \E kw \in climate_keywords : Contains(combined_text, <<kw>>)
             THEN FALSE
             ELSE TRUE
        ELSE TRUE

-----------------------------------------------------------------------------
(* The mocked search capability *)

Url(host, path) == <<"https", host, path>>

Item(url, title, description) ==
    [url |-> url, title |-> title, description |-> description]

PathOf(i) == CASE i = 1 -> "p1" [] i = 2 -> "p2" [] i = 3 -> "p3" [] i = 4 -> "p4"
               [] i = 5 -> "p5" [] i = 6 -> "p6" [] OTHER -> "p7"

\* a relevant hit: company name and a context keyword
Good(i) == Item(Url("acme.com", PathOf(i)), <<"Acme", "Climate">>, <<"report">>)
\* the same URL as Good(1) with another title
Good1b == Item(Url("acme.com", PathOf(1)), <<"US0000000000">>, <<"filing">>)
\* rejected hits: generic domain, name without context
GenericHit == Item(Url("wikipedia.org", "acme"), <<"Acme", "Climate">>, <<"article">>)
NoContextHit == Item(Url("news.com", "acme"), <<"Acme">>, <<"opens", "store">>)

\* the URL of Good(1) with another scheme, and with another letter case
SchemeTwin == Item(<<"http", "acme.com", PathOf(1)>>, <<"Acme", "Climate">>, <<"report">>)
CaseTwin == Item(<<"https", "Acme.com", PathOf(1)>>, <<"Acme", "Climate">>, <<"report">>)

\* JSON null where a text is expected
NoneText == <<"<null>">>
\* a hit with "title": null
NullTitleHit == Item(Url("acme.com", "broken"), NoneText, <<"report">>)

\* a relevant URL no page below shares with another
ExtraHit == Item(Url("acme.com", "extra"), <<"ACME", "Risk">>, <<"update">>)

\* the result lists (data['web']['results']) the mocked API may deliver for a
\* query, by the query's position in its template set; any call may also raise
Pages(query) ==
    CASE query.pos = 1 ->
            {<<Good(1), Good(2), GenericHit>>, <<Good(1), NullTitleHit, Good(2)>>}
      [] query.pos = 2 -> {[i \in 1..(NUrls - 3) |-> Good(i + 2)], <<Good1b, Good(1), SchemeTwin, CaseTwin>>}
      [] OTHER -> {<< >>, <<Good(NUrls), NoContextHit>>, <<ExtraHit>>}

-----------------------------------------------------------------------------
(* AdaptiveDocumentSearch *)

\* len(all_queries) in _generate_queries
NumTemplateSets == 10
\* queries per template set
QueriesPerSet == 3

Min(a, b) == IF a < b THEN a ELSE b

\* _generate_queries: the queries of iteration n are those of template set
\* (n - 1) % len(all_queries); a query is named by its set and its position
GenerateQueries(iteration_num) ==
    LET iteration_idx == (iteration_num - 1) % NumTemplateSets
        n == IF iteration_idx = 8
             THEN Min(3, Cardinality(company_name_variations))
             ELSE QueriesPerSet
    IN  [j \in 1..n |-> [tmpl |-> iteration_idx, pos |-> j]]

\* _brave_search: every item becomes a result carrying the query
BraveSearch(page, query) ==
    [i \in 1..Len(page) |->
        [url |-> page[i].url, title |-> page[i].title,
         description |-> page[i].description, query |-> query]]

\* mutant: results stored per URL and query
ResultKeyPerQuery(result) == <<result.url, result.query>>

\* _search_iteration: the key a result is stored under (url = result['url'])
ResultKey(result) == result.url

\* mutant: a later accepted result replaces the one stored for its URL
RECURSIVE AddResultsLastWins(_, _, _)
AddResultsLastWins(results, i, acc) ==
    IF i > Len(results) THEN acc
    ELSE LET result == results[i]
             keep == ~ShouldFilter(result.url, result.title, result.description,
                                   isin, company_name_variations)
         IN  AddResultsLastWins(results, i + 1,
                        IF keep THEN (ResultKey(result) :> result) @@ acc ELSE acc)

\* _search_iteration: the loop over the results of one query
RECURSIVE AddResults(_, _, _)
AddResults(results, i, acc) ==
    IF i > Len(results) THEN acc
    ELSE LET result == results[i]
             keep == /\ ~ShouldFilter(result.url, result.title, result.description,
                                      isin, company_name_variations)
                     /\ ResultKey(result) \notin DOMAIN acc
         IN  AddResults(results, i + 1,
                        IF keep THEN (ResultKey(result) :> result) @@ acc ELSE acc)

\* history: the ways in which the accepted results of one query repeat a URL
\* (twice in the page, of an earlier query of the iteration, of an earlier
\* iteration)
Repeats(results) ==
    LET ok(i) == ~ShouldFilter(results[i].url, results[i].title,
                               results[i].description, isin, company_name_variations)
        idx == {i \in 1..Len(results) : ok(i)}
    IN  {k \in {"page"} : \E i, j \in idx : i < j /\ results[i].url = results[j].url}
        \cup {k \in {"iteration"} : \E i \in idx :
                    results[i].url \in {all_results[u].url : u \in DOMAIN all_results}}
        \cup {k \in {"session"} : \E i \in idx :
                    results[i].url \in {all_documents[u].url : u \in DOMAIN all_documents}}

\* mutant: one iteration too many
LoopGuardOffByOne ==
    /\ iteration <= max_iterations
    /\ Cardinality(DOMAIN all_documents) < max_documents

\* search(): the while condition
LoopGuard ==
    /\ iteration < max_iterations
    /\ Cardinality(DOMAIN all_documents) < max_documents

\* mutant: exhaustion only after three empty iterations
ExhaustedLate(n) == n >= 3

\* search(): consecutive_no_new_docs >= 2
Exhausted(n) == n >= 2

\* list(all_documents.values()), up to order
ValuesBag(d) ==
    LET vals == {d[k] : k \in DOMAIN d}
    IN  [v \in vals |-> Cardinality({k \in DOMAIN d : d[k] = v})]

SearchInit ==
    /\ Idle("search")
    /\ max_iterations \in 1..MaxIterBound
    /\ max_documents \in {SmallMaxDocs, NUrls + 1}
    /\ company_name_variations = {<<"acme">>}
    /\ isin = "US0000000000"
    /\ all_documents = EmptyDict
    /\ iteration = 0
    /\ consecutive_no_new_docs = 0
    /\ queries = << >>
    /\ query_pos = 0
    /\ all_results = EmptyDict
    /\ returned = EmptyBag
    /\ search_pc = "loop"
    /\ repeats = {}
    /\ outcomes = << >>

\* while ...: iteration += 1; queries = self._generate_queries(...)
StartIteration ==
    /\ search_pc = "loop"
    /\ LoopGuard
    /\ iteration' = iteration + 1
    /\ queries' = GenerateQueries(iteration + 1)
    /\ query_pos' = 0
    /\ all_results' = EmptyDict
    /\ search_pc' = "query"
    /\ outcomes' = << >>
    /\ UNCHANGED <<max_iterations, max_documents, company_name_variations, isin,
                   all_documents, consecutive_no_new_docs, returned, repeats, not_search>>

\* title.lower() in _should_filter raises AttributeError for a null title,
\* unless the generic-domain rule has returned before
FilterRaises(result) ==
    /\ result.title = NoneText
    /\ ~\E domain \in GENERIC_DOMAINS : Contains(Lower(result.url), <<domain>>)

\* the results of a page that are looked at before the filter raises
BeforeRaise(results) ==
    IF \E i \in 1..Len(results) : FilterRaises(results[i])
    THEN SubSeq(results, 1,
                (CHOOSE i \in 1..Len(results) :
                    /\ FilterRaises(results[i])
                    /\ \A j \in 1..(i - 1) : ~FilterRaises(results[j])) - 1)
    ELSE results

\* mutant: a failure discards what the iteration has found
DropResults(found) == EmptyDict

\* the except branch of _search_iteration logs; all_results stays as it is
AfterFailure(found) == found

\* one pass of `for query in queries`: the API call answers with a page and
\* all its results pass through the filter
QueryAnswered ==
    /\ search_pc = "query"
    /\ query_pos < Len(queries)
    /\ \E page \in Pages(queries[query_pos + 1]) :
          LET results == BraveSearch(page, queries[query_pos + 1])
          IN  /\ BeforeRaise(results) = results
              /\ all_results' = AddResults(results, 1, all_results)
              /\ repeats' = repeats \cup Repeats(results)
    /\ query_pos' = query_pos + 1
    /\ outcomes' = Append(outcomes, "ok")
    /\ UNCHANGED <<max_iterations, max_documents, company_name_variations, isin,
                   all_documents, iteration, consecutive_no_new_docs, queries,
                   returned, search_pc, not_search>>

\* one pass of `for query in queries`: the API call raises, the except logs it
QueryFailed ==
    /\ search_pc = "query"
    /\ query_pos < Len(queries)
    /\ query_pos' = query_pos + 1
    /\ all_results' = AfterFailure(all_results)
    /\ outcomes' = Append(outcomes, "raised")
    /\ UNCHANGED <<max_iterations, max_documents, company_name_variations, isin,
                   all_documents, iteration, consecutive_no_new_docs, queries,
                   returned, search_pc, repeats, not_search>>

\* one pass of `for query in queries`: the API call answers, the filter raises
\* on one of the results, the except logs it
ResultsFailed ==
    /\ search_pc = "query"
    /\ query_pos < Len(queries)
    /\ \E page \in Pages(queries[query_pos + 1]) :
          LET results == BraveSearch(page, queries[query_pos + 1])
          IN  /\ BeforeRaise(results) # results
              /\ all_results' =
                     AfterFailure(AddResults(BeforeRaise(results), 1, all_results))
              /\ repeats' = repeats \cup Repeats(BeforeRaise(results))
    /\ query_pos' = query_pos + 1
    /\ outcomes' = Append(outcomes, "partial")
    /\ UNCHANGED <<max_iterations, max_documents, company_name_variations, isin,
                   all_documents, iteration, consecutive_no_new_docs, queries,
                   returned, search_pc, not_search>>

\* _search_iteration returns; search() merges and checks termination
EndIteration ==
    /\ search_pc = "query"
    /\ query_pos = Len(queries)
    /\ LET new_docs == all_results
           previously_unseen == DOMAIN new_docs \ DOMAIN all_documents
           counter == IF previously_unseen = {} THEN consecutive_no_new_docs + 1 ELSE 0
       IN  /\ all_documents' =
                 [url \in previously_unseen |-> new_docs[url]] @@ all_documents
           /\ consecutive_no_new_docs' = counter
           /\ search_pc' = IF previously_unseen = {} /\ Exhausted(counter)
                           THEN "exit" ELSE "loop"
    /\ outcomes' = << >>
    /\ UNCHANGED <<max_iterations, max_documents, company_name_variations, isin,
                   iteration, queries, query_pos, all_results, returned, repeats,
                   not_search>>

\* the loop is left (break or while condition false); return list(...values())
Return ==
    /\ \/ search_pc = "exit"
       \/ search_pc = "loop" /\ ~LoopGuard
    /\ returned' = ValuesBag(all_documents)
    /\ search_pc' = "done"
    /\ UNCHANGED <<max_iterations, max_documents, company_name_variations, isin,
                   all_documents, iteration, consecutive_no_new_docs, queries,
                   query_pos, all_results, repeats, outcomes, not_search>>

SearchNext ==
    \/ StartIteration
    \/ QueryFailed
    \/ QueryAnswered
    \/ ResultsFailed
    \/ EndIteration
    \/ Return

SearchSpec == SearchInit /\ [][SearchNext]_vars /\ WF_vars(SearchNext)

-----------------------------------------------------------------------------
(* Claims about AdaptiveDocumentSearch.search *)

\* the documents of the session first found by iteration i (their query says so)
AddedBy(i) ==
    {url \in DOMAIN all_documents :
        all_documents[url].query.tmpl = (i - 1) % NumTemplateSets}

\* the number of iterations, counted back from iteration i, that added nothing
RECURSIVE TrailingEmpty(_)
TrailingEmpty(i) ==
    IF i = 0 THEN 0
    ELSE IF AddedBy(i) = {} THEN 1 + TrailingEmpty(i - 1) ELSE 0

\* C1: the list search() returns holds no document twice and no two documents
\* with the same URL, although URLs come again within a page, from another
\* query of the iteration and from another iteration.
C1_NoDuplicateUrl ==
    search_pc = "done" =>
        /\ \A d \in BagToSet(returned) : returned[d] = 1
        /\ \A d1, d2 \in BagToSet(returned) : d1.url = d2.url => d1 = d2
        /\ BagCardinality(returned) = Cardinality({d.url : d \in BagToSet(returned)})

C1_Witness ==
    /\ search_pc = "done"
    /\ repeats = {"page", "iteration", "session"}
    /\ BagCardinality(returned) >= 3

\* C2: search() terminates; it never runs more than max_iterations iterations,
\* and an iteration starts only while the session holds fewer than
\* max_documents documents.
C2_Terminates ==
    /\ [](iteration <= max_iterations)
    /\ [][iteration' # iteration =>
            /\ iteration' = iteration + 1
            /\ iteration < max_iterations
            /\ Cardinality(DOMAIN all_documents) < max_documents]_vars
    /\ <>(search_pc = "done")

C2_Witness ==
    /\ search_pc = "done"
    /\ max_iterations = MaxIterBound
    /\ iteration = max_iterations
    /\ \A i \in 1..iteration : AddedBy(i) # {}

\* C3: between iterations the counter is the number of trailing iterations that
\* added no URL (so an adding iteration resets it), the loop goes on only while
\* it is below 2 and breaks exactly when it is 2; when iteration 1 adds 5 URLs
\* and iterations 2 and 3 add none, search() returns those 5 documents after
\* exactly 3 iterations.
C3_Exhaustion ==
    /\ search_pc \in {"loop", "exit", "done"} =>
            consecutive_no_new_docs = TrailingEmpty(iteration)
    /\ search_pc = "loop" => consecutive_no_new_docs < 2
    /\ search_pc = "exit" => consecutive_no_new_docs = 2
    /\ ( /\ search_pc = "done"
         /\ max_iterations >= 3
         /\ max_documents > 5
         /\ Cardinality(AddedBy(1)) = 5
         /\ AddedBy(2) = {}
         /\ AddedBy(3) = {} )
        => /\ iteration = 3
           /\ BagCardinality(returned) = 5
           /\ {d.url : d \in BagToSet(returned)} = AddedBy(1)

C3_Witness ==
    /\ search_pc = "done"
    /\ max_iterations > 3
    /\ max_documents > 5
    /\ Cardinality(AddedBy(1)) = 5
    /\ iteration = 3
    /\ consecutive_no_new_docs = 2
    /\ BagCardinality(returned) = 5

-----------------------------------------------------------------------------
(* _should_filter applied to single hits *)

FilterVocab == {"Acme", "climate", "news", "introduction", "to", "US0000000000"}

\* texts of at most n tokens
TextsUpTo(n) == UNION {[1..m -> FilterVocab] : m \in 0..n}

\* name variations: none (a fresh object), of "Acme Corp", of "Acme News Corp"
FilterVariations ==
    {{}, {<<"acme">>}, {<<"acme">>, <<"acme", "news">>, <<"an">>}}

FilterInit ==
    /\ Idle("filter")
    /\ f_url \in {Url("acme.com", "p1"), Url("Wikipedia.org", "acme")}
    /\ f_title \in {<< >>} \cup {<<t>> : t \in FilterVocab}
    /\ f_snippet \in TextsUpTo(MaxSnippetLen)
    /\ f_isin \in {None, "US0000000000"}
    /\ f_variations \in FilterVariations
    /\ f_verdict = "pending"
    /\ f_base = [has |-> FALSE, snippet |-> << >>, verdict |-> "idle"]

\* the call _should_filter(url, title, snippet, company_name, isin)
ApplyFilter ==
    /\ f_verdict = "pending"
    /\ f_verdict' = IF ShouldFilter(f_url, f_title, f_snippet, f_isin, f_variations)
                    THEN "reject" ELSE "accept"
    /\ UNCHANGED <<f_url, f_title, f_snippet, f_isin, f_variations, f_base, not_filter>>

\* the same hit comes again with the keyword "climate" added to its snippet
AddKeyword ==
    /\ f_verdict \in {"reject", "accept"}
    /\ ~f_base.has
    /\ f_base' = [has |-> TRUE, snippet |-> f_snippet, verdict |-> f_verdict]
    /\ f_snippet' = Append(f_snippet, "climate")
    /\ f_verdict' = "pending"
    /\ UNCHANGED <<f_url, f_title, f_isin, f_variations, not_filter>>

FilterNext == ApplyFilter \/ AddKeyword

FilterSpec == FilterInit /\ [][FilterNext]_vars

\* the tests C9 and C10 speak of, on a hit's title and snippet
OnBlocklist == \E domain \in GENERIC_DOMAINS : Contains(Lower(f_url), <<domain>>)
HasGenericPhrase(title, snippet) ==
    \E keyword \in GENERIC_KEYWORDS :
        Contains(Lower(title), keyword) \/ Contains(Lower(snippet), keyword)
HasIdentifier(title, snippet) ==
    f_isin # None /\ Contains(title \o snippet, <<f_isin>>)
HasVariation(title, snippet) ==
    \E v \in f_variations : Contains(Lower(title \o snippet), v)
HasContext(title, snippet) ==
    \E kw \in climate_keywords : Contains(Lower(title \o snippet), <<kw>>)

\* C9: of the hits that are off the blocklist, hold no generic phrase and do
\* not hold the identifier: one with a name variation and no context keyword is
\* rejected, the same hit with "climate" added to its snippet is accepted, and
\* one without any name variation is rejected whatever keywords it holds.
C9_NameNeedsContext ==
    /\ ( /\ f_verdict \in {"reject", "accept"}
         /\ ~OnBlocklist /\ ~HasGenericPhrase(f_title, f_snippet)
         /\ ~HasIdentifier(f_title, f_snippet) )
        => /\ HasVariation(f_title, f_snippet) /\ ~HasContext(f_title, f_snippet)
                => f_verdict = "reject"
           /\ ~HasVariation(f_title, f_snippet) => f_verdict = "reject"
    /\ ( /\ f_verdict \in {"reject", "accept"}
         /\ f_base.has
         /\ ~OnBlocklist /\ ~HasGenericPhrase(f_title, f_base.snippet)
         /\ ~HasIdentifier(f_title, f_base.snippet)
         /\ HasVariation(f_title, f_base.snippet)
         /\ ~HasContext(f_title, f_base.snippet) )
        => f_base.verdict = "reject" /\ f_verdict = "accept"

C9_Witness ==
    /\ f_base.has /\ f_base.verdict = "reject" /\ f_verdict = "accept"
    /\ ~OnBlocklist /\ ~HasGenericPhrase(f_title, f_base.snippet)
    /\ ~HasIdentifier(f_title, f_base.snippet)
    /\ HasVariation(f_title, f_base.snippet)
    /\ ~HasContext(f_title, f_base.snippet)
    /\ f_snippet = Append(f_base.snippet, "climate")

\* C10: a hit the blocklist and generic-phrase rules let pass is accepted
\* whenever the identifier occurs in its title + snippet, also without any
\* name variation or context keyword.
C10_IdentifierSuffices ==
    ( /\ f_verdict \in {"reject", "accept"}
      /\ ~OnBlocklist /\ ~HasGenericPhrase(f_title, f_snippet)
      /\ HasIdentifier(f_title, f_snippet) )
    => f_verdict = "accept"

C10_Witness ==
    /\ f_verdict = "accept"
    /\ ~OnBlocklist /\ ~HasGenericPhrase(f_title, f_snippet)
    /\ HasIdentifier(f_title, f_snippet)
    /\ ~HasVariation(f_title, f_snippet)
    /\ ~HasContext(f_title, f_snippet)
    /\ f_variations # {}

\* C19: the rejection rules come first: a hit on the generic-domain
\* blocklist, or with a generic-topic phrase in its title or in its snippet,
\* is rejected, also when its text holds the identifier or a name variation
\* together with a context keyword.
C19_RejectionFirst ==
    ( /\ f_verdict \in {"reject", "accept"}
      /\ OnBlocklist \/ HasGenericPhrase(f_title, f_snippet) )
    => f_verdict = "reject"

C19_Witness ==
    /\ f_verdict = "reject"
    /\ ~OnBlocklist /\ HasGenericPhrase(f_title, f_snippet)
    /\ HasVariation(f_title, f_snippet) /\ HasContext(f_title, f_snippet)
    /\ ~HasIdentifier(f_title, f_snippet)

-----------------------------------------------------------------------------
(* BatchedAssessmentEngine._parse_batch_response *)
(* JSON values are tagged records: Str, Num (in tenths, so 37 is 3.7), Null, *)
(* JList, and for a JSON object [t |-> "dict", ...] with its members.        *)

Str(s) == [t |-> "str", s |-> s]
Num(tenths) == [t |-> "num", tenths |-> tenths]
Null == [t |-> "null"]
JList == [t |-> "list"]

Raise(exc) == [exc |-> exc]
NoExc == "none"

\* int(x) of a float: truncation towards zero
Trunc(tenths) == IF tenths >= 0 THEN tenths \div 10 ELSE -((-tenths) \div 10)

\* int(x) of a str: decimal digits only
IntOfStr(str) ==
    CASE str = "0" -> [exc |-> NoExc, v |-> 0]
      [] str = "3" -> [exc |-> NoExc, v |-> 3]
      [] str = "4" -> [exc |-> NoExc, v |-> 4]
      [] OTHER -> [exc |-> "ValueError", v |-> 0]

\* int(measure.get('score', 0))
IntOf(jv) ==
    CASE jv.t = "num" -> [exc |-> NoExc, v |-> Trunc(jv.tenths)]
      [] jv.t = "str" -> IntOfStr(jv.s)
      [] OTHER -> [exc |-> "TypeError", v |-> 0]

\* dict.get(key, default)
Get(f, key, default) == IF key \in DOMAIN f THEN f[key] ELSE default

\* self.ai_model_name
ai_model_name == "DeepSeek V3"

\* the entry built from a measure of the response
ParsedEntry(measure, score) ==
    [score |-> score,
     confidence |-> Get(measure.f, "confidence", Str("Unknown")),
     rationale |-> Get(measure.f, "rationale", Str("No rationale provided")),
     evidence |-> Get(measure.f, "evidence", Str("No evidence found")),
     source |-> Get(measure.f, "source", Str("")),
     ai_model |-> ai_model_name]

\* the default for a measure the response does not hold
MissingEntry ==
    [score |-> 0, confidence |-> Str("Unknown"),
     rationale |-> Str("No assessment provided in batch response"),
     evidence |-> Str("No evidence found"), source |-> Str(""),
     ai_model |-> ai_model_name]

\* the default of the except branch: f'Parsing error: {str(e)}'
ErrorEntry(exc) ==
    [score |-> 0, confidence |-> Str("Unknown"),
     rationale |-> [t |-> "fstr", prefix |-> "Parsing error: ", e |-> exc],
     evidence |-> Str("No evidence found"), source |-> Str(""),
     ai_model |-> ai_model_name]

\* `measure_id in measures_data`
MemberTest(measures_data, measure_id) ==
    CASE measures_data.t = "dict" -> [exc |-> NoExc, v |-> measure_id \in DOMAIN measures_data.d]
      [] measures_data.t \in {"str", "list"} -> [exc |-> NoExc, v |-> measure_id \in measures_data.has]
      [] OTHER -> [exc |-> "TypeError", v |-> FALSE]

\* the loop `for measure_id in measure_ids` of the try block
RECURSIVE ParseMeasures(_, _, _, _)
ParseMeasures(measures_data, measure_ids, i, batch_measures) ==
    IF i > Len(measure_ids) THEN [exc |-> NoExc, measures |-> batch_measures]
    ELSE
      LET measure_id == measure_ids[i]
          member == MemberTest(measures_data, measure_id)
      IN  IF member.exc # NoExc THEN Raise(member.exc)
          ELSE IF ~member.v
          THEN ParseMeasures(measures_data, measure_ids, i + 1,
                             (measure_id :> MissingEntry) @@ batch_measures)
          ELSE IF measures_data.t # "dict" THEN Raise("TypeError")
          ELSE LET measure == measures_data.d[measure_id]
               IN  IF measure.t # "dict" THEN Raise("AttributeError")
                   ELSE LET score == IntOf(Get(measure.f, "score", Num(0)))
                        IN  IF score.exc # NoExc THEN Raise(score.exc)
                            ELSE ParseMeasures(measures_data, measure_ids, i + 1,
                                     (measure_id :> ParsedEntry(measure, score.v))
                                         @@ batch_measures)

NoMatch == [m |-> "nomatch"]
Invalid == [m |-> "invalid"]

\* the try block: re.search, json.loads, response_json.get('measures', {}), loop
TryParse(response_text, measure_ids) ==
    IF response_text.t = "none" THEN Raise("TypeError")
    ELSE LET json_match == IF response_text.fence # NoMatch
                           THEN response_text.fence ELSE response_text.span
         IN  IF json_match = NoMatch THEN Raise("ValueError")
             ELSE IF json_match = Invalid THEN Raise("JSONDecodeError")
             ELSE LET measures_data ==
                          IF json_match.measures.t = "absent"
                          THEN [t |-> "dict", d |-> EmptyDict]
                          ELSE json_match.measures
                  IN  ParseMeasures(measures_data, measure_ids, 1, EmptyDict)

\* mutant: only malformed JSON is caught
CaughtJsonOnly(exc) == exc \in {"ValueError", "JSONDecodeError"}

\* `except Exception`: every exception the try block raises is an Exception
Caught(exc) == exc \in {"ValueError", "JSONDecodeError", "TypeError", "AttributeError"}

Range(seq) == {seq[i] : i \in 1..Len(seq)}

\* mutant: a failure of the try block leaves the batch without entries
ParseWithoutDefaults(response_text, measure_ids) ==
    LET try == TryParse(response_text, measure_ids)
    IN  IF try.exc = NoExc THEN [raised |-> FALSE, measures |-> try.measures]
        ELSE [raised |-> FALSE, measures |-> EmptyDict]

\* _parse_batch_response(response_text, measure_ids)
ParseBatchResponse(response_text, measure_ids) ==
    LET try == TryParse(response_text, measure_ids)
    IN  IF try.exc = NoExc THEN [raised |-> FALSE, measures |-> try.measures]
        ELSE IF Caught(try.exc)
        THEN [raised |-> FALSE,
              measures |-> [id \in Range(measure_ids) |-> ErrorEntry(try.exc)]]
        ELSE [raised |-> TRUE, measures |-> EmptyDict]

(* the responses and id lists the parser is applied to *)

ReqIds == {"M01", "M02", "M03"}
RespIds == {"M01", "M02", "M99"}

Measure(f) == [t |-> "dict", f |-> f]
FullMeasure(score) ==
    Measure([k \in {"score", "confidence", "rationale", "evidence", "source"} |->
        CASE k = "score" -> score
          [] k = "confidence" -> Str("High")
          [] k = "rationale" -> Str("Board reviews flood risk")
          [] k = "evidence" -> Str("quote")
          [] OTHER -> Str("https://acme.com/p1")])

\* score values: 3, 3.7, -1, 5, "3", "high", null
ScoreVals == {Num(30), Num(37), Num(-10), Num(50), Str("3"), Str("high"), Null}

MeasureVals ==
    {FullMeasure(sc) : sc \in ScoreVals}
    \cup {Measure(EmptyDict), Measure([k \in {"score"} |-> Num(20)]), Str("n/a")}

MeasuresData ==
    {[t |-> "absent"], [t |-> "null"], [t |-> "num"]}
    \cup {[t |-> tt, has |-> h] : tt \in {"str", "list"}, h \in {{}, {"M01"}}}
    \cup {[t |-> "dict", d |-> f] : f \in UNION {[S -> MeasureVals] : S \in SUBSET RespIds}}

JsonResults == {Invalid} \cup {[m |-> "obj", measures |-> md] : md \in MeasuresData}

\* response_text: None, or a text with what the fenced-block pattern and the
\* bare {..."measures"...} pattern find in it and what json.loads makes of it
Responses ==
    {[t |-> "none"]}
    \cup {[t |-> "text", fence |-> j, span |-> NoMatch] : j \in JsonResults \cup {NoMatch}}
    \cup {[t |-> "text", fence |-> NoMatch, span |-> j] : j \in JsonResults}
    \cup {[t |-> "text", fence |-> Invalid,
           span |-> [m |-> "obj", measures |-> [t |-> "dict", d |-> EmptyDict]]]}

ParseInit ==
    /\ Idle("parse")
    /\ p_response \in Responses
    /\ p_measure_ids \in UNION {[1..n -> ReqIds] : n \in 0..MaxIds}
    /\ p_result = [raised |-> FALSE, measures |-> EmptyDict]
    /\ p_pc = "call"

ParseCall ==
    /\ p_pc = "call"
    /\ p_result' = ParseBatchResponse(p_response, p_measure_ids)
    /\ p_pc' = "done"
    /\ UNCHANGED <<p_response, p_measure_ids, not_parse>>

ParseNext == ParseCall

ParseSpec == ParseInit /\ [][ParseNext]_vars

\* no JSON object could be extracted from the response
NoJson(response_text) ==
    \/ response_text.t = "none"
    \/ /\ response_text.t = "text"
       /\ \/ response_text.fence = Invalid
          \/ response_text.fence = NoMatch /\ response_text.span \in {NoMatch, Invalid}

\* C4: _parse_batch_response never raises; the map it returns has exactly the
\* requested ids as keys; and when no JSON could be extracted, every entry has
\* score 0 and a rationale that records the parse failure.
C4_ParseTotal ==
    p_pc = "done" =>
        /\ ~p_result.raised
        /\ DOMAIN p_result.measures = Range(p_measure_ids)
        /\ NoJson(p_response) =>
              \A id \in DOMAIN p_result.measures :
                  /\ p_result.measures[id].score = 0
                  /\ p_result.measures[id].rationale.t = "fstr"
                  /\ p_result.measures[id].rationale.prefix = "Parsing error: "

\* a JSON object of the wrong shape: an unrequested id, a requested id missing,
\* and a requested measure that is no object
C4_Witness ==
    /\ p_pc = "done"
    /\ p_response.t = "text" /\ p_response.fence # NoMatch /\ p_response.fence # Invalid
    /\ p_response.fence.measures.t = "dict"
    /\ DOMAIN p_response.fence.measures.d = {"M01", "M99"}
    /\ p_response.fence.measures.d["M01"] = Str("n/a")
    /\ p_measure_ids = <<"M01", "M02">>
    /\ DOMAIN p_result.measures = {"M01", "M02"}

-----------------------------------------------------------------------------
(* MEASURE_BATCHES, MEASURE_NAMES *)

\* mutant: M18 opens batch 3 again and M28 is left out
MEASURE_BATCHES_Shifted ==
    << <<"M01", "M02", "M03", "M04", "M05", "M06", "M07", "M08", "M09">>,
       <<"M10", "M11", "M12", "M13", "M14", "M15", "M16", "M17", "M18">>,
       <<"M18", "M19", "M20", "M21", "M22", "M23", "M24", "M25", "M26", "M27">>,
       <<"M29", "M30", "M31", "M32", "M33", "M34", "M35", "M36", "M37">>,
       <<"M38", "M39", "M40", "M41", "M42", "M43", "M44">> >>

MEASURE_BATCHES ==
    << <<"M01", "M02", "M03", "M04", "M05", "M06", "M07", "M08", "M09">>,
       <<"M10", "M11", "M12", "M13", "M14", "M15", "M16", "M17", "M18">>,
       <<"M19", "M20", "M21", "M22", "M23", "M24", "M25", "M26", "M27", "M28">>,
       <<"M29", "M30", "M31", "M32", "M33", "M34", "M35", "M36", "M37">>,
       <<"M38", "M39", "M40", "M41", "M42", "M43", "M44">> >>

MEASURE_NAMES ==
    [id \in {"M01", "M02", "M03", "M04", "M05", "M06", "M07", "M08", "M09", "M10",
             "M11", "M12", "M13", "M14", "M15", "M16", "M17", "M18", "M19", "M20",
             "M21", "M22", "M23", "M24", "M25", "M26", "M27", "M28", "M29", "M30",
             "M31", "M32", "M33", "M34", "M35", "M36", "M37", "M38", "M39", "M40",
             "M41", "M42", "M43", "M44"} |->
        CASE id = "M01" -> "Board Oversight of Physical Climate Risk"
          [] id = "M02" -> "Senior Management Responsibility for Physical Climate Risk"
          [] id = "M03" -> "Integration of Physical Climate Risks into Enterprise Risk Management"
          [] id = "M04" -> "Physical Climate Risk Strategy and Planning"
          [] id = "M05" -> "Physical Climate Risk Governance Structure"
          [] id = "M06" -> "Identification of Acute Physical Risks"
          [] id = "M07" -> "Identification of Chronic Physical Risks"
          [] id = "M08" -> "Geographic Exposure Assessment"
          [] id = "M09" -> "Scenario Analysis for Physical Climate Risks"
          [] id = "M10" -> "Quantification of Physical Climate Risk Exposure"
          [] id = "M11" -> "Assessment of Asset-Level Vulnerability"
          [] id = "M12" -> "Assessment of Supply Chain Vulnerability to Physical Risks"
          [] id = "M13" -> "Assessment of Operational Vulnerability"
          [] id = "M14" -> "Financial Impact Assessment of Physical Risks"
          [] id = "M15" -> "Climate-Resilient Asset Design and Construction"
          [] id = "M16" -> "Infrastructure Hardening and Adaptation Measures"
          [] id = "M17" -> "Relocation or Divestment of High-Risk Assets"
          [] id = "M18" -> "Nature-Based Solutions for Physical Risk Mitigation"
          [] id = "M19" -> "Emergency Preparedness and Response Plans"
          [] id = "M20" -> "Business Continuity Planning for Physical Climate Events"
          [] id = "M21" -> "Crisis Communication Protocols"
          [] id = "M22" -> "Post-Event Recovery and Restoration Capabilities"
          [] id = "M23" -> "Supply Chain Resilience and Diversification"
          [] id = "M24" -> "Supplier Climate Risk Assessment"
          [] id = "M25" -> "Alternative Sourcing Strategies"
          [] id = "M26" -> "Insurance Coverage for Physical Climate Risks"
          [] id = "M27" -> "Risk Transfer Mechanisms"
          [] id = "M28" -> "Self-Insurance and Reserves"
          [] id = "M29" -> "Climate Data Quality and Sources"
          [] id = "M30" -> "Third-Party Verification and Assurance"
          [] id = "M31" -> "Workforce Safety and Health Protocols"
          [] id = "M32" -> "Community Engagement and Support"
          [] id = "M33" -> "Just Transition Considerations"
          [] id = "M34" -> "Physical Risk KPIs and Metrics"
          [] id = "M35" -> "Target Setting for Physical Risk Reduction"
          [] id = "M36" -> "Monitoring and Reporting of Physical Risk Performance"
          [] id = "M37" -> "Disclosure Alignment with TCFD and Other Frameworks"
          [] id = "M38" -> "Demonstrated Reduction in Physical Risk Exposure"
          [] id = "M39" -> "Avoided Losses from Physical Climate Events"
          [] id = "M40" -> "Improved Asset Resilience Metrics"
          [] id = "M41" -> "Enhanced Operational Continuity"
          [] id = "M42" -> "Stakeholder Confidence and Reputation"
          [] id = "M43" -> "Regulatory Compliance and Preparedness"
          [] OTHER -> "Long-term Value Creation and Sustainability"]

\* the ids of the batches, one after the other
RECURSIVE Flatten(_)
Flatten(seqs) == IF seqs = << >> THEN << >> ELSE Head(seqs) \o Flatten(Tail(seqs))

-----------------------------------------------------------------------------
(* BatchedAssessmentEngine._build_assessment_data *)
(* all_measures is an insertion-ordered dict: a sequence of <<id, entry>>.   *)
(* Scores on the 0-10 scale are kept in tenths (50 is 5.0).                  *)

\* avg_score = total_score / 44.0
AvgDivisor == 44
\* avg_score >= 3.0, in tenths
LowFromTenths == 30
\* avg_score >= 1.5, in tenths
MediumFromTenths == 15
\* avg_score * 2.5, in tenths
ScaleTenths == 25

\* sum(m['score'] for m in all_measures.values())
RECURSIVE SumScores(_)
SumScores(all_measures) ==
    IF all_measures = << >> THEN 0
    ELSE Head(all_measures)[2].score + SumScores(Tail(all_measures))

\* mutant: the thresholds are exclusive
RiskRatingStrict(total_score) ==
    IF total_score * 10 > LowFromTenths * AvgDivisor THEN "Low"
    ELSE IF total_score * 10 > MediumFromTenths * AvgDivisor THEN "Medium"
    ELSE "High"

\* the rating of avg_score = total_score / 44.0 (the quotient compared exactly)
RiskRating(total_score) ==
    IF total_score * 10 >= LowFromTenths * AvgDivisor THEN "Low"
    ELSE IF total_score * 10 >= MediumFromTenths * AvgDivisor THEN "Medium"
    ELSE "High"

\* round(n / d) to the nearest integer, ties to the even one (Python's round)
RoundHalfEven(n, d) ==
    LET q == n \div d
        r == n % d
    IN  IF 2 * r < d THEN q
        ELSE IF 2 * r > d THEN q + 1
        ELSE IF q % 2 = 0 THEN q ELSE q + 1

\* mutant: the score is cut to one decimal, not rounded
PhysicalRiskScoreCut(total_score) == (total_score * ScaleTenths) \div AvgDivisor

\* round(avg_score * 2.5, 1), in tenths
PhysicalRiskScore(total_score) == RoundHalfEven(total_score * ScaleTenths, AvgDivisor)

\* _build_assessment_data(all_measures, company_data)
BuildAssessmentData(all_measures) ==
    LET total_score == SumScores(all_measures)
    IN  [overall_risk_rating |-> RiskRating(total_score),
         physical_risk_score |-> PhysicalRiskScore(total_score),
         transition_risk_score |-> 0,
         measures |-> all_measures,
         total_measures_assessed |-> Len(all_measures),
         assessment_method |-> "Batched DeepSeek V3 (5 batches)"]

(* the measure results the aggregation is applied to *)

AllIds == Flatten(MEASURE_BATCHES)

Scored(score) == [MissingEntry EXCEPT !.score = score]

\* 44 results: the first t have score hi, the others lo
Results(t, hi, lo) ==
    [i \in 1..Len(AllIds) |-> <<AllIds[i], Scored(IF i <= t THEN hi ELSE lo)>>]

\* orders in which the five batches may arrive
BatchOrders == {<<5, 4, 3, 2, 1>>, <<2, 1, 4, 3, 5>>, <<3, 5, 1, 2, 4>>}

Reverse(seq) == [i \in 1..Len(seq) |-> seq[Len(seq) + 1 - i]]

\* the results of all_measures, batch by batch in the given order, each batch
\* forwards or backwards
Arrival(all_measures, order, backwards) ==
    LET ids == Flatten([k \in 1..Len(order) |->
                   IF backwards THEN Reverse(MEASURE_BATCHES[order[k]])
                   ELSE MEASURE_BATCHES[order[k]]])
        at(id) == CHOOSE i \in 1..Len(all_measures) : all_measures[i][1] = id
    IN  [i \in 1..Len(ids) |-> all_measures[at(ids[i])]]

AggInit ==
    /\ Idle("agg")
    /\ \E t \in 0..Len(AllIds), hi \in 0..MaxScore, lo \in 0..MaxScore :
          /\ a_measures = Results(t, hi, lo)
          /\ \E order \in BatchOrders, backwards \in BOOLEAN :
                a_arrival = Arrival(a_measures, order, backwards)
    /\ a_data = NoData /\ a_data2 = NoData
    /\ a_pc = "call"

Aggregate ==
    /\ a_pc = "call"
    /\ a_data' = BuildAssessmentData(a_measures)
    /\ a_data2' = BuildAssessmentData(a_arrival)
    /\ a_pc' = "done"
    /\ UNCHANGED <<a_measures, a_arrival, not_agg>>

AggNext == Aggregate

AggSpec == AggInit /\ [][AggNext]_vars

\* the sum of the scores of a_measures, counted score by score
ScoreCount(score) == Cardinality({i \in 1..Len(a_measures) : a_measures[i][2].score = score})
RECURSIVE WeightedCount(_)
WeightedCount(scores) ==
    IF scores = {} THEN 0
    ELSE LET score == CHOOSE x \in scores : TRUE
         IN  score * ScoreCount(score) + WeightedCount(scores \ {score})
ScoreSum == WeightedCount({a_measures[i][2].score : i \in 1..Len(a_measures)})

\* C6: the rating is Low from a score sum of 132 (average 3.0) on, Medium from
\* 66 (average 1.5) to 131, High up to 65.
C6_RatingThresholds ==
    a_pc = "done" =>
        /\ ScoreSum >= 132 => a_data.overall_risk_rating = "Low"
        /\ (ScoreSum >= 66 /\ ScoreSum <= 131) => a_data.overall_risk_rating = "Medium"
        /\ ScoreSum <= 65 => a_data.overall_risk_rating = "High"

C6_Witness ==
    /\ a_pc = "done"
    /\ ScoreSum = 132
    /\ a_data.overall_risk_rating = "Low"
    /\ \E i \in 1..Len(a_measures) : a_measures[i][2].score = 4

\* C7: physical_risk_score is (sum / 44) * 2.5 rounded to the nearest tenth; a
\* sum of 88 gives 5.0 and Medium; and the same results arriving in another
\* order give the same score and rating.
C7_PhysicalRiskScore ==
    a_pc = "done" =>
        /\ LET diff == a_data.physical_risk_score * 44 - ScoreSum * 25
           IN  2 * diff <= 44 /\ 2 * diff >= -44
        /\ ScoreSum = 88 =>
              a_data.physical_risk_score = 50 /\ a_data.overall_risk_rating = "Medium"
        /\ a_data2.physical_risk_score = a_data.physical_risk_score
        /\ a_data2.overall_risk_rating = a_data.overall_risk_rating
        /\ a_data2.total_measures_assessed = a_data.total_measures_assessed

C7_Witness ==
    /\ a_pc = "done"
    /\ ScoreSum = 88
    /\ a_data.physical_risk_score = 50
    /\ a_arrival # a_measures
    /\ \E i \in 1..Len(a_measures) : a_measures[i][2].score # a_arrival[i][2].score

-----------------------------------------------------------------------------
(* BatchedAssessmentEngine.process_company *)

\* the keys of an insertion-ordered dict, in order
KeysOf(dict) == [i \in 1..Len(dict) |-> dict[i][1]]

\* dict[key] = value
SetItem(dict, key, value) ==
    IF \E i \in 1..Len(dict) : dict[i][1] = key
    THEN [i \in 1..Len(dict) |-> IF dict[i][1] = key THEN <<key, value>> ELSE dict[i]]
    ELSE Append(dict, <<key, value>>)

\* all_measures.update(batch_measures); batch_measures holds its keys in the
\* order of measure_ids, in which the parser inserted them
RECURSIVE DictUpdate(_, _, _)
DictUpdate(dict, batch_measures, measure_ids) ==
    IF measure_ids = << >> THEN dict
    ELSE LET id == Head(measure_ids)
         IN  DictUpdate(IF id \in DOMAIN batch_measures
                        THEN SetItem(dict, id, batch_measures[id]) ELSE dict,
                        batch_measures, Tail(measure_ids))

(* what the backend may answer to the prompt of a batch *)

JsonText(d) ==
    [t |-> "text", span |-> NoMatch,
     fence |-> [m |-> "obj", measures |-> [t |-> "dict", d |-> d]]]

BackendAnswers(measure_ids) ==
    { [t |-> "none"],
      [t |-> "text", fence |-> NoMatch, span |-> NoMatch],
      JsonText([id \in Range(measure_ids) |-> FullMeasure(Num(40))]),
      JsonText([id \in Range(measure_ids) |-> FullMeasure(Num(20))]),
      JsonText([id \in Range(Tail(measure_ids)) \cup {"M99"} |-> FullMeasure(Num(30))]),
      JsonText([id \in {"M01", "M44"} |-> FullMeasure(Num(10))]),
      JsonText([id \in Range(measure_ids) |->
                  IF id = Head(measure_ids) THEN FullMeasure(Str("high"))
                  ELSE FullMeasure(Num(40))]) }

Exc(type, msg) == [type |-> type, msg |-> msg]

ProcInit ==
    /\ Idle("proc")
    /\ pr_pc = "prompt"
    /\ batch_num = 0
    /\ pr_all_measures = << >>
    /\ pr_exc = NoException
    /\ job_status = "processing"
    /\ job_error = NoMessage
    /\ assessments = << >>
    /\ propagated = NoException
    /\ success = "none"

\* Step 1: self.db.get_active_processprompt()
GetActiveProcessprompt ==
    /\ pr_pc = "prompt"
    /\ \/ pr_pc' = "search" /\ UNCHANGED pr_exc
       \/ /\ pr_pc' = "except"
          /\ pr_exc' \in {Exc("ValueError", "No active ProcessPrompt found"),
                          Exc("OperationalError", "database")}
    /\ UNCHANGED <<batch_num, pr_all_measures, job_status, job_error, assessments, propagated, success, not_proc>>

\* Step 2: search_company_climate_info(...), sorted(...), _format_search_with_urls
RetrieveDocuments ==
    /\ pr_pc = "search"
    /\ \/ pr_pc' = "batch" /\ UNCHANGED pr_exc
       \/ pr_pc' = "except" /\ pr_exc' = Exc("Exception", "search")
    /\ UNCHANGED <<batch_num, pr_all_measures, job_status, job_error, assessments, propagated, success, not_proc>>

\* Step 3, one round of the loop: call_deepseek answers, the answer is parsed
\* and merged
BatchAnswered ==
    /\ pr_pc = "batch"
    /\ batch_num < Len(MEASURE_BATCHES)
    /\ LET measure_ids == MEASURE_BATCHES[batch_num + 1]
       IN  \E batch_response \in BackendAnswers(measure_ids) :
             LET parsed == ParseBatchResponse(batch_response, measure_ids)
             IN  IF parsed.raised
                 THEN /\ pr_pc' = "except" /\ pr_exc' = Exc("Exception", "parse")
                      /\ UNCHANGED <<batch_num, pr_all_measures>>
                 ELSE /\ pr_all_measures' =
                             DictUpdate(pr_all_measures, parsed.measures, measure_ids)
                      /\ batch_num' = batch_num + 1
                      /\ UNCHANGED <<pr_pc, pr_exc>>
    /\ UNCHANGED <<job_status, job_error, assessments, propagated, success, not_proc>>

\* Step 3, one round of the loop: call_deepseek raises
BatchFailed ==
    /\ pr_pc = "batch"
    /\ batch_num < Len(MEASURE_BATCHES)
    /\ pr_pc' = "except"
    /\ pr_exc' = Exc("APIError", "backend")
    /\ UNCHANGED <<batch_num, pr_all_measures, job_status, job_error, assessments, propagated, success, not_proc>>

\* Steps 4 and 5: _build_assessment_data and self.db.save_assessment
SaveAssessment ==
    /\ pr_pc = "batch"
    /\ batch_num = Len(MEASURE_BATCHES)
    /\ \/ /\ assessments' = Append(assessments, BuildAssessmentData(pr_all_measures))
          /\ pr_pc' = "complete"
          /\ UNCHANGED pr_exc
       \/ /\ pr_pc' = "except"
          /\ pr_exc' = Exc("OperationalError", "database")
          /\ UNCHANGED assessments
    /\ UNCHANGED <<batch_num, pr_all_measures, job_status, job_error, propagated, success, not_proc>>

\* Step 6: self.db.update_job_status(job_id, 'completed')
MarkCompleted ==
    /\ pr_pc = "complete"
    /\ \/ /\ job_status' = "completed"
          /\ pr_pc' = "returned"
          /\ UNCHANGED pr_exc
       \/ /\ pr_pc' = "except"
          /\ pr_exc' = Exc("OperationalError", "database")
          /\ UNCHANGED job_status
    /\ UNCHANGED <<batch_num, pr_all_measures, job_error, assessments, propagated, success, not_proc>>

\* mutant: the message is empty
ErrorMsgBlank(e) == << >>

\* error_msg = f"{type(e).__name__}: {str(e)}\n\nTraceback:\n{error_trace[:500]}"
ErrorMsg(e) == <<e.type, ": ", e.msg, "Traceback:">>

\* the except branch: update_job_status(job_id, 'failed', error_message), raise;
\* when the status update raises, its exception leaves process_company instead
MarkFailed ==
    /\ pr_pc = "except"
    /\ \/ /\ job_status' = "failed" /\ job_error' = Str(ErrorMsg(pr_exc))
          /\ propagated' = pr_exc
       \/ /\ UNCHANGED <<job_status, job_error>>
          /\ propagated' = Exc("InterfaceError", "connection already closed")
    /\ pr_pc' = "raised"
    /\ UNCHANGED <<batch_num, pr_all_measures, pr_exc, assessments, success, not_proc>>

\* AssessmentWorker.process_job: True when process_company returns, False when
\* it raises an Exception
ProcessJobReturns ==
    /\ pr_pc \in {"returned", "raised"}
    /\ success' = IF pr_pc = "returned" THEN "True" ELSE "False"
    /\ pr_pc' = "worker"
    /\ UNCHANGED <<batch_num, pr_all_measures, pr_exc, job_status, job_error,
                   assessments, propagated, not_proc>>

ProcNext ==
    \/ GetActiveProcessprompt
    \/ RetrieveDocuments
    \/ BatchAnswered
    \/ BatchFailed
    \/ SaveAssessment
    \/ MarkCompleted
    \/ MarkFailed
    \/ ProcessJobReturns

ProcSpec == ProcInit /\ [][ProcNext]_vars

\* the id of the n-th measure of the taxonomy: M01 .. M44
IdOf(n) == IF n < 10 THEN "M0" \o ToString(n) ELSE "M" \o ToString(n)

C8_StoredAssessmentComplete ==
    \A r \in 1..Len(assessments) :
        LET data == assessments[r]
        IN  /\ Range(KeysOf(data.measures)) = {IdOf(n) : n \in 1..44}
            /\ Len(data.measures) = 44
            /\ data.total_measures_assessed = 44

\* stored although one batch was answered without JSON, one with a missing and
\* an unrequested id, and one in full
C8_Witness ==
    /\ Len(assessments) = 1
    /\ LET measures == assessments[1].measures
       IN  /\ measures[1][2].rationale = [t |-> "fstr", prefix |-> "Parsing error: ", e |-> "ValueError"]
           /\ measures[10][2] = MissingEntry
           /\ measures[11][2].score = 3
           /\ measures[19][2].score = 4

\* C11: when the backend call fails for one batch, the measures of the batches
\* that completed before it are still delivered to storage.
C11_PartialResultsDelivered ==
    (propagated # NoException /\ pr_exc = Exc("APIError", "backend") /\ batch_num >= 1) =>
        \E r \in 1..Len(assessments) :
            Range(KeysOf(pr_all_measures)) \subseteq Range(KeysOf(assessments[r].measures))

\* process_company has failed: it left by an exception
ProcessFailed == propagated # NoException

-----------------------------------------------------------------------------
(* further properties of _parse_batch_response *)

\* C13: every measure result of _parse_batch_response has an integer score in
\* 0..4, whatever score value the response carries.
C13_ScoreInRange ==
    p_pc = "done" =>
        \A id \in DOMAIN p_result.measures : p_result.measures[id].score \in 0..4

\* the JSON object the parser takes from a response text
JsonOf(response_text) ==
    IF response_text.fence # NoMatch THEN response_text.fence ELSE response_text.span

\* the response holds a JSON object whose measures are a map of objects
WellShaped(response_text, measure_ids) ==
    /\ response_text.t = "text"
    /\ JsonOf(response_text) \notin {NoMatch, Invalid}
    /\ JsonOf(response_text).measures.t = "dict"
    /\ \A id \in Range(measure_ids) \cap DOMAIN JsonOf(response_text).measures.d :
          JsonOf(response_text).measures.d[id].t = "dict"

\* C20: when the response JSON parses and the score of a requested measure
\* cannot be coerced to an integer, that measure gets score 0 and every other
\* requested measure of the response keeps its parsed values.
C20_CoercionPerMeasure ==
    (p_pc = "done" /\ WellShaped(p_response, p_measure_ids)) =>
        LET d == JsonOf(p_response).measures.d
        IN  \A id \in Range(p_measure_ids) \cap DOMAIN d :
                LET score == IntOf(Get(d[id].f, "score", Num(0)))
                IN  IF score.exc # NoExc
                    THEN p_result.measures[id].score = 0
                    ELSE p_result.measures[id] = ParsedEntry(d[id], score.v)

-----------------------------------------------------------------------------
(* AdaptiveDocumentSearch._extract_core_names, _discover_name_variations *)
(* A name is a sequence of characters: "A" is an upper-case letter, "g", "c", *)
(* "o" and "a" are lower-case letters, " " is white space, "." punctuation.   *)

Chars == {"A", "g", "c", "o", " ", "."}

\* str.lower(), character by character
LowerChar(c) == IF c = "A" THEN "a" ELSE c
StrLower(str) == [i \in 1..Len(str) |-> LowerChar(str[i])]

\* \w and \s of the regular expressions
IsWordChar(c) == c \in {"A", "a", "g", "c", "o"}
IsSpace(c) == c = " "

\* re.sub(r'[^\w\s]', ' ', name_lower)
RemovePunctuation(str) ==
    [i \in 1..Len(str) |-> IF IsWordChar(str[i]) \/ IsSpace(str[i]) THEN str[i] ELSE " "]

\* str.split(): the maximal runs of characters that are not white space
RECURSIVE SplitFrom(_, _, _)
SplitFrom(str, word, words) ==
    IF str = << >> THEN (IF word = << >> THEN words ELSE Append(words, word))
    ELSE IF IsSpace(Head(str))
    THEN SplitFrom(Tail(str), << >>, IF word = << >> THEN words ELSE Append(words, word))
    ELSE SplitFrom(Tail(str), Append(word, Head(str)), words)
Split(str) == SplitFrom(str, << >>, << >>)

\* str.strip()
RECURSIVE LStrip(_)
LStrip(str) == IF str # << >> /\ IsSpace(Head(str)) THEN LStrip(Tail(str)) ELSE str
RECURSIVE RStrip(_)
RStrip(str) ==
    IF str # << >> /\ IsSpace(str[Len(str)]) THEN RStrip(SubSeq(str, 1, Len(str) - 1)) ELSE str
Strip(str) == RStrip(LStrip(str))

\* ' '.join(words)
RECURSIVE Join(_)
Join(words) ==
    IF words = << >> THEN << >>
    ELSE IF Len(words) = 1 THEN words[1]
    ELSE words[1] \o <<" ">> \o Join(Tail(words))

\* _extract_core_names: suffixes
suffixes ==
    {<<"i", "n", "c">>,
     <<"i", "n", "c", "o", "r", "p", "o", "r", "a", "t", "e", "d">>,
     <<"c", "o", "r", "p">>,
     <<"c", "o", "r", "p", "o", "r", "a", "t", "i", "o", "n">>,
     <<"l", "t", "d">>,
     <<"l", "i", "m", "i", "t", "e", "d">>,
     <<"a", "g">>,
     <<"p", "l", "c">>,
     <<"s", "a">>,
     <<"n", "v">>,
     <<"g", "m", "b", "h">>,
     <<"c", "o">>,
     <<"c", "o", "m", "p", "a", "n", "y">>,
     <<"g", "r", "o", "u", "p">>}

IsCoreWord(w) == w \notin suffixes /\ Len(w) > 2

\* _extract_core_names(company_name)
ExtractCoreNames(company_name) ==
    LET name_lower == StrLower(company_name)
        name_clean == RemovePunctuation(name_lower)
        words == Split(name_clean)
        core_words == SelectSeq(words, IsCoreWord)
        abbrev == [i \in 1..Min(3, Len(core_words)) |-> core_words[i][1]]
    IN  IF core_words = << >> THEN {Strip(name_lower)}
        ELSE {core_words[1]}
             \cup (IF Len(core_words) >= 2
                   THEN {core_words[1] \o <<" ">> \o core_words[2]} ELSE {})
             \cup {Join(core_words)}
             \cup (IF Len(core_words) >= 2 /\ Len(abbrev) >= 2
                   THEN {StrLower(abbrev)} ELSE {})

\* all names of at most n characters
NamesUpTo(n) == UNION {[1..k -> Chars] : k \in 0..n}

\* what isin_pattern's group ([A-Z][a-zA-Z\s&\.]+) can capture: an upper-case
\* letter followed by at least one letter, white space, "&" or "."
Captures == {str \in NamesUpTo(MaxMatchLen) : Len(str) >= 2 /\ str[1] = "A"}

NameInit ==
    /\ Idle("name")
    /\ n_company_name \in NamesUpTo(MaxNameLen)
    /\ n_isin \in {None, "US0000000000"}
    /\ n_variations = {}
    /\ n_matched = 0
    /\ n_pc = "start"

\* search(): no isin, self.company_name_variations = _extract_core_names(...)
ExtractOnly ==
    /\ n_pc = "start" /\ n_isin = None
    /\ n_variations' = ExtractCoreNames(n_company_name)
    /\ n_pc' = "done"
    /\ UNCHANGED <<n_company_name, n_isin, n_matched, not_name>>

\* _discover_name_variations: start with the provided name
DiscoverBegin ==
    /\ n_pc = "start" /\ n_isin # None
    /\ n_variations' = ExtractCoreNames(n_company_name)
    /\ n_pc' = "discover"
    /\ UNCHANGED <<n_company_name, n_isin, n_matched, not_name>>

\* _discover_name_variations: one match of isin_pattern in a result
DiscoverMatch ==
    /\ n_pc = "discover" /\ n_matched < MaxMatches
    /\ \E match \in Captures :
          n_variations' = n_variations \cup ExtractCoreNames(Strip(match))
    /\ n_matched' = n_matched + 1
    /\ UNCHANGED <<n_company_name, n_isin, n_pc, not_name>>

\* _discover_name_variations: the ISIN search raises; back to the provided name
DiscoverFails ==
    /\ n_pc = "discover" /\ n_matched = 0
    /\ n_variations' = ExtractCoreNames(n_company_name)
    /\ n_pc' = "done"
    /\ UNCHANGED <<n_company_name, n_isin, n_matched, not_name>>

\* _discover_name_variations: all results looked at
DiscoverEnds ==
    /\ n_pc = "discover"
    /\ n_pc' = "done"
    /\ UNCHANGED <<n_company_name, n_isin, n_variations, n_matched, not_name>>

NameNext ==
    \/ ExtractOnly
    \/ DiscoverBegin
    \/ DiscoverMatch
    \/ DiscoverFails
    \/ DiscoverEnds

NameSpec == NameInit /\ [][NameNext]_vars

\* C14: name-variation resolution yields at least one variation and never the
\* empty string, for every company name, with or without an identifier lookup.
C14_VariationsNonEmpty ==
    n_pc = "done" =>
        /\ n_variations # {}
        /\ \A v \in n_variations : v # << >>

-----------------------------------------------------------------------------
(* BatchedAssessmentEngine._format_search_with_urls, _build_batch_prompt *)
(* A text is a sequence of pieces; a piece stands for n characters of text s. *)

Piece(s, n) == [s |-> s, n |-> n]

\* len(text)
RECURSIVE TextLen(_)
TextLen(text) == IF text = << >> THEN 0 ELSE Head(text).n + TextLen(Tail(text))

\* text[:k]
RECURSIVE Prefix(_, _)
Prefix(text, k) ==
    IF text = << >> \/ k <= 0 THEN << >>
    ELSE IF Head(text).n <= k THEN <<Head(text)>> \o Prefix(Tail(text), k - Head(text).n)
    ELSE <<Piece(Head(text).s, k)>>

\* the number of characters of str(i)
Digits(i) == IF i < 10 THEN 1 ELSE IF i < 100 THEN 2 ELSE 3

\* the f-string of one source
SourceBlock(i, result) ==
    << Piece("[Source ", 8), Piece(ToString(i), Digits(i)), Piece("]\nTitle: ", 9),
       Get(result, "title", Piece("N/A", 3)),
       Piece("\nURL: ", 6), Get(result, "url", Piece("N/A", 3)),
       Piece("\nSnippet: ", 10), Get(result, "snippet", Piece("N/A", 3)),
       Piece("\n", 1) >>

\* "\n".join(formatted)
RECURSIVE JoinLines(_)
JoinLines(formatted) ==
    IF formatted = << >> THEN << >>
    ELSE IF Len(formatted) = 1 THEN formatted[1]
    ELSE formatted[1] \o <<Piece("\n", 1)>> \o JoinLines(Tail(formatted))

\* _format_search_with_urls(search_results)
FormatSearchWithUrls(search_results) ==
    JoinLines([i \in 1..Len(search_results) |-> SourceBlock(i, search_results[i])])

\* the URLs of the results, in the order of str comparison
UrlOrder == <<"", "https://acme.com/a", "https://acme.com/b", "https://zeta.org/r">>
UrlRank(url) == CHOOSE i \in 1..Len(UrlOrder) : UrlOrder[i] = url
SortKey(result) == UrlRank(Get(result, "url", Piece("", 0)).s)

\* mutant: the documents are formatted in the order of arrival
Unsorted(results) == results

\* sorted(all_search_results, key=lambda x: x.get('url', '')): stable
RECURSIVE Insert(_, _)
Insert(sorted, result) ==
    IF sorted = << >> THEN <<result>>
    ELSE IF SortKey(sorted[Len(sorted)]) <= SortKey(result) THEN Append(sorted, result)
    ELSE Append(Insert(SubSeq(sorted, 1, Len(sorted) - 1), result), sorted[Len(sorted)])
RECURSIVE SortedByUrl(_)
SortedByUrl(results) ==
    IF results = << >> THEN << >>
    ELSE Insert(SortedByUrl(SubSeq(results, 1, Len(results) - 1)), results[Len(results)])

\* len(processprompt) > 40000, processprompt[:40000]
RubricBudget == 40000

\* "\n\n[ProcessPrompt truncated]"
TruncationMarker == Piece("\n\n[ProcessPrompt truncated]", 27)

\* mutant: a long ProcessPrompt is cut without a marker
BuildBatchPromptSilent(processprompt, web_search_results, measure_ids, batch) ==
    [batch_num |-> batch,
     web_search_results |-> web_search_results,
     processprompt_summary |-> Prefix(processprompt, RubricBudget),
     measures_list |-> [i \in 1..Len(measure_ids) |->
                           <<measure_ids[i], MEASURE_NAMES[measure_ids[i]]>>]]

\* _build_batch_prompt: the parts of the prompt that depend on the arguments
BuildBatchPrompt(processprompt, web_search_results, measure_ids, batch) ==
    [batch_num |-> batch,
     web_search_results |-> web_search_results,
     processprompt_summary |->
        IF TextLen(processprompt) > RubricBudget
        THEN Prefix(processprompt, RubricBudget)
                 \o <<TruncationMarker>>
        ELSE processprompt,
     measures_list |-> [i \in 1..Len(measure_ids) |->
                           <<measure_ids[i], MEASURE_NAMES[measure_ids[i]]>>]]

(* the documents and rubrics the prompts are built from *)

Result(title, url, key, text) ==
    ("title" :> title) @@ ("url" :> url) @@ (key :> text)

SearchResults ==
    { Result(Piece("Acme climate report", 19), Piece("https://acme.com/a", 18),
             "description", Piece("flood risk at Acme plants", 25)),
      Result(Piece("Acme annual report", 30000), Piece("https://acme.com/b", 18),
             "description", Piece("full text of the report", 30000)),
      Result(Piece("Acme adaptation plan", 20), Piece("https://zeta.org/r", 18),
             "snippet", Piece("resilience measures of Acme", 30000)),
      Result(Piece("Acme climate report (copy)", 26), Piece("https://acme.com/a", 18),
             "description", Piece("flood risk at Acme plants", 25)),
      ("title" :> Piece("untitled", 8)) }

Rubrics ==
    { <<Piece("rubric", 40000)>>,
      <<Piece("rubric", 39000), Piece("appendix", 1001)>>,
      <<Piece("rubric", 120)>> }

PromptInit ==
    /\ Idle("prompt")
    /\ b_results \in UNION {[1..n -> SearchResults] : n \in 0..MaxResults}
    /\ b_processprompt \in Rubrics
    /\ b_context = << >>
    /\ b_prompts = << >>
    /\ b_pc = "format"

\* process_company 2b, 2c: sort by URL and format
FormatContext ==
    /\ b_pc = "format"
    /\ b_context' = FormatSearchWithUrls(SortedByUrl(b_results))
    /\ b_pc' = "build"
    /\ UNCHANGED <<b_results, b_processprompt, b_prompts, not_prompt>>

\* process_company step 3: the prompt of the next batch
BuildPrompt ==
    /\ b_pc = "build"
    /\ Len(b_prompts) < Len(MEASURE_BATCHES)
    /\ b_prompts' = Append(b_prompts,
          BuildBatchPrompt(b_processprompt, b_context,
                           MEASURE_BATCHES[Len(b_prompts) + 1], Len(b_prompts) + 1))
    /\ b_pc' = IF Len(b_prompts) + 1 = Len(MEASURE_BATCHES) THEN "done" ELSE "build"
    /\ UNCHANGED <<b_results, b_processprompt, b_context, not_prompt>>

PromptNext == FormatContext \/ BuildPrompt

PromptSpec == PromptInit /\ [][PromptNext]_vars

\* C15: the corpus section of every batch prompt stays within the character
\* budget, however many documents there are and however long they are.
C15_CorpusCapped ==
    \A k \in 1..Len(b_prompts) :
        TextLen(b_prompts[k].web_search_results) <= RubricBudget

\* text `body` is the first k characters of text `whole`
FirstChars(body, whole, k) ==
    /\ TextLen(body) = k
    /\ Len(body) <= Len(whole)
    /\ \A i \in 1..Len(body) :
          /\ body[i].s = whole[i].s
          /\ IF i < Len(body) THEN body[i].n = whole[i].n ELSE body[i].n <= whole[i].n

\* the marker occurs in the text
HasMarker(text) == \E i \in 1..Len(text) : text[i] = TruncationMarker

\* C21: in every batch prompt a ProcessPrompt of at most 40000 characters is
\* embedded unchanged and without the truncation marker; a longer one is
\* embedded as exactly its first 40000 characters followed by the marker.
C21_RubricTruncation ==
    \A k \in 1..Len(b_prompts) :
        LET summary == b_prompts[k].processprompt_summary
        IN  IF TextLen(b_processprompt) <= 40000
            THEN summary = b_processprompt /\ ~HasMarker(summary)
            ELSE /\ Len(summary) >= 2
                 /\ summary[Len(summary)] = TruncationMarker
                 /\ FirstChars(SubSeq(summary, 1, Len(summary) - 1),
                               b_processprompt, 40000)
                 /\ ~HasMarker(SubSeq(summary, 1, Len(summary) - 1))

C21_Witness ==
    /\ b_pc = "done"
    /\ Len(b_prompts) = 5
    /\ TextLen(b_processprompt) = 40001
    /\ TextLen(b_prompts[5].processprompt_summary) = 40027
    /\ HasMarker(b_prompts[5].processprompt_summary)

\* the same documents in every order of arrival
Reorderings(results) ==
    { [i \in 1..Len(results) |-> results[f[i]]] : f \in Permutations(1..Len(results)) }

\* the documents of one discovery session: no URL twice
DistinctUrls(results) ==
    \A i, j \in 1..Len(results) :
        i # j => Get(results[i], "url", Piece("", 0)) # Get(results[j], "url", Piece("", 0))

\* C22: for the documents of a discovery session (no URL twice) the corpus
\* text, its source numbering and each of the batch prompts are the same for
\* every order in which discovery could have returned these documents.
C22_OrderIndependent ==
    (b_pc # "format" /\ DistinctUrls(b_results)) =>
        \A other \in Reorderings(b_results) :
            LET context == FormatSearchWithUrls(SortedByUrl(other))
            IN  /\ context = b_context
                /\ \A k \in 1..Len(b_prompts) :
                      b_prompts[k] = BuildBatchPrompt(b_processprompt, context,
                                                      MEASURE_BATCHES[k], k)

C22_Witness ==
    /\ b_pc = "done" /\ Len(b_prompts) = 5
    /\ Len(b_results) = 2 /\ DistinctUrls(b_results)
    /\ SortKey(b_results[1]) > SortKey(b_results[2])
    /\ b_context = FormatSearchWithUrls(<<b_results[2], b_results[1]>>)
    /\ b_prompts[5].web_search_results = b_context

\* the snippet text a document arrived with: _brave_search stores it under
\* 'description', other search capabilities under 'snippet'
SnippetOf(result) ==
    IF "description" \in DOMAIN result THEN result["description"]
    ELSE Get(result, "snippet", Piece("", 0))

\* C25: source number i of the corpus carries the title, the URL and the
\* snippet text of the i-th document as it arrived; a document that arrived
\* with a non-empty snippet is not rendered with a placeholder.
C25_SourcesFaithful ==
    b_pc # "format" =>
        LET documents == SortedByUrl(b_results)
        IN  \A i \in 1..Len(documents) :
                LET base == (i - 1) * 10
                    document == documents[i]
                IN  /\ b_context[base + 2].s = ToString(i)
                    /\ "title" \in DOMAIN document => b_context[base + 4] = document["title"]
                    /\ "url" \in DOMAIN document => b_context[base + 6] = document["url"]
                    /\ SnippetOf(document).n > 0 =>
                          b_context[base + 8] = SnippetOf(document)

-----------------------------------------------------------------------------
(* storage and job status at the end of process_company *)

\* C29: when process_company has ended, an assessment is stored for the job
\* only if the job's status is completed; a failed job has none.
C29_StoredOnlyIfCompleted ==
    pr_pc \in {"returned", "raised", "worker"} =>
        (assessments # << >> => job_status = "completed")

-----------------------------------------------------------------------------
(* the documents of a session of AdaptiveDocumentSearch.search *)

\* C24: a document stored in the session stays as it is: whatever is stored
\* for a URL in the session, or in the running iteration, is never replaced
\* or altered by a later hit (its originating query included), and the
\* session's documents only grow.
C24_DocumentsImmutable ==
    [][ /\ \A url \in DOMAIN all_documents :
              /\ url \in DOMAIN all_documents'
              /\ all_documents'[url] = all_documents[url]
        /\ \A url \in DOMAIN all_results :
              \/ iteration' # iteration
              \/ /\ url \in DOMAIN all_results'
                 /\ all_results'[url] = all_results[url] ]_vars

\* the session holds the first hit of a URL after the same URL came again
\* with another title from a later query and in a later iteration
C24_Witness ==
    /\ search_pc = "done"
    /\ {"iteration", "session"} \subseteq repeats
    /\ Good(1).url \in DOMAIN all_documents
    /\ all_documents[Good(1).url].title = Good(1).title
    /\ all_documents[Good(1).url].query = [tmpl |-> 0, pos |-> 1]
    /\ iteration >= 2

\* C26: the list search() returns holds at most max_documents documents.
C26_AtMostMaxDocuments ==
    search_pc = "done" => BagCardinality(returned) <= max_documents

-----------------------------------------------------------------------------
(* failures of single queries in AdaptiveDocumentSearch._search_iteration *)

\* the results of the running iteration that query number j brought
ResultsOf(j) == {url \in DOMAIN all_results : all_results[url].query.pos = j}

\* a step in which a query of the iteration ended in the except branch
FailureStep ==
    /\ Len(outcomes') = Len(outcomes) + 1
    /\ outcomes'[Len(outcomes')] # "ok"

\* every query of the running iteration failed in the API call
AllRaised ==
    /\ search_pc = "query"
    /\ Len(outcomes) = Len(queries)
    /\ \A j \in 1..Len(outcomes) : outcomes[j] = "raised"

NormalizedUrl(url) == <<"https">> \o Lower(Tail(url))

\* C17: two hits whose URLs differ only in letter case or only in scheme are
\* the same document: at most one of them is in the list search() returns.
C17_NormalizedIdentity ==
    search_pc = "done" =>
        \A d1, d2 \in BagToSet(returned) :
            NormalizedUrl(d1.url) = NormalizedUrl(d2.url) => d1 = d2

-----------------------------------------------------------------------------
(* AssessmentWorker.run, Database.get_pending_jobs, Database.create_job *)

JobIds == 1..NJobs
Workers == 1..NWorkers

\* max_consecutive_errors = 5
max_consecutive_errors == 5

\* mutant: failed jobs are claimed again
ClaimableOrFailed(status) == status \in {"pending", "failed"}

\* get_pending_jobs: WHERE status = 'pending'
Claimable(status) == status = "pending"

\* mutant: the sub-select reads rows whatever locks they carry
LockIgnored(j) == TRUE

\* get_pending_jobs: FOR UPDATE SKIP LOCKED
NotLocked(j) == q_lock[j] = 0

\* get_pending_jobs: ORDER BY created_at ASC LIMIT 1 (ids grow with created_at)
OldestClaimable ==
    CHOOSE j \in JobIds :
        /\ Claimable(q_status[j]) /\ NotLocked(j)
        /\ \A k \in JobIds : (Claimable(q_status[k]) /\ NotLocked(k)) => j <= k

\* how process_company can end for the job: the status it leaves, the rows it
\* has stored, and what process_job returns
ProcessOutcomes ==
    { [status |-> "completed", rows |-> 1, success |-> TRUE],
      [status |-> "failed", rows |-> 0, success |-> FALSE],
      [status |-> "failed", rows |-> 1, success |-> FALSE],
      [status |-> "processing", rows |-> 0, success |-> FALSE],
      [status |-> "processing", rows |-> 1, success |-> FALSE] }

WorkerInit ==
    /\ Idle("worker")
    /\ q_status = [j \in JobIds |-> "none"]
    /\ q_rows = [j \in JobIds |-> 0]
    /\ q_claims = [j \in JobIds |-> 0]
    /\ q_lock = [j \in JobIds |-> 0]
    /\ w_pc = [w \in Workers |-> "poll"]
    /\ w_job = [w \in Workers |-> 0]
    /\ consecutive_errors = [w \in Workers |-> 0]

\* create_job: INSERT INTO assessment_jobs (company_id, status) VALUES (.., 'pending')
CreateJob ==
    /\ \E j \in JobIds :
          /\ q_status[j] = "none"
          /\ \A k \in JobIds : k < j => q_status[k] # "none"
          /\ q_status' = [q_status EXCEPT ![j] = "pending"]
    /\ UNCHANGED <<q_rows, q_claims, q_lock, w_pc, w_job, consecutive_errors, not_worker>>

\* get_pending_jobs: the UPDATE .. WHERE id IN (SELECT .. FOR UPDATE SKIP
\* LOCKED) RETURNING statement runs; the row is locked and its new status is
\* not yet visible to other transactions
ClaimJob(w) ==
    /\ w_pc[w] = "poll"
    /\ \E j \in JobIds : Claimable(q_status[j]) /\ NotLocked(j)
    /\ LET j == OldestClaimable
       IN  /\ q_lock' = [q_lock EXCEPT ![j] = w]
           /\ w_job' = [w_job EXCEPT ![w] = j]
    /\ w_pc' = [w_pc EXCEPT ![w] = "commit"]
    /\ UNCHANGED <<q_status, q_rows, q_claims, consecutive_errors, not_worker>>

\* get_pending_jobs: conn.commit(), the company is read, the job is returned
\* to run(), now in status processing
CommitClaim(w) ==
    /\ w_pc[w] = "commit"
    /\ q_status' = [q_status EXCEPT ![w_job[w]] = "processing"]
    /\ q_claims' = [q_claims EXCEPT ![w_job[w]] = @ + 1]
    /\ q_lock' = [q_lock EXCEPT ![w_job[w]] = 0]
    /\ w_pc' = [w_pc EXCEPT ![w] = "process"]
    /\ UNCHANGED <<q_rows, w_job, consecutive_errors, not_worker>>

\* run(): get_pending_jobs raises: before its statement, at the commit (the
\* transaction is rolled back when the connection is released) or after the
\* commit while the company is read; the except branch counts the error and
\* stops the worker at max_consecutive_errors
PollFails(w) ==
    /\ consecutive_errors[w] < MaxErrors
    /\ \/ /\ w_pc[w] = "poll"
          /\ UNCHANGED <<q_status, q_lock, w_job>>
       \/ /\ w_pc[w] = "commit"
          /\ q_lock' = [q_lock EXCEPT ![w_job[w]] = 0]
          /\ w_job' = [w_job EXCEPT ![w] = 0]
          /\ \/ UNCHANGED q_status
             \/ q_status' = [q_status EXCEPT ![w_job[w]] = "processing"]
    /\ consecutive_errors' = [consecutive_errors EXCEPT ![w] = @ + 1]
    /\ w_pc' = [w_pc EXCEPT ![w] =
                   IF consecutive_errors[w] + 1 >= max_consecutive_errors
                   THEN "stopped" ELSE "poll"]
    /\ UNCHANGED <<q_rows, q_claims, not_worker>>

\* run(): process_job(job) returns; success resets the counter, failure counts
FinishJob(w) ==
    /\ w_pc[w] = "process"
    /\ \E outcome \in ProcessOutcomes :
          /\ outcome.success \/ consecutive_errors[w] < MaxErrors
          /\ q_status' = [q_status EXCEPT ![w_job[w]] = outcome.status]
          /\ q_rows' = [q_rows EXCEPT ![w_job[w]] = @ + outcome.rows]
          /\ consecutive_errors' = [consecutive_errors EXCEPT ![w] =
                                       IF outcome.success THEN 0 ELSE @ + 1]
    /\ w_job' = [w_job EXCEPT ![w] = 0]
    /\ w_pc' = [w_pc EXCEPT ![w] = "poll"]
    /\ UNCHANGED <<q_claims, q_lock, not_worker>>

WorkerNext ==
    \/ CreateJob
    \/ \E w \in Workers : ClaimJob(w)
    \/ \E w \in Workers : CommitClaim(w)
    \/ \E w \in Workers : PollFails(w)
    \/ \E w \in Workers : FinishJob(w)

WorkerSpec == WorkerInit /\ [][WorkerNext]_vars

\* the status changes a job may make
StatusMoves ==
    { <<"none", "pending">>, <<"pending", "processing">>,
      <<"processing", "completed">>, <<"processing", "failed">> }

\* C18: a job's status only moves pending -> processing -> completed or
\* failed; only pending jobs are claimed; a job is handed to a worker at most
\* once, so a failed or completed job, or one left in processing, is never
\* picked up again and a terminal status never changes.
C18_NoRetry ==
    /\ [][\A j \in JobIds :
            /\ q_status'[j] # q_status[j] => <<q_status[j], q_status'[j]>> \in StatusMoves
            /\ q_claims'[j] # q_claims[j] => q_status[j] = "pending"]_vars
    /\ [](\A j \in JobIds :
            /\ q_claims[j] <= 1
            /\ Cardinality({w \in Workers : w_job[w] = j}) <= 1
            /\ q_claims[j] = 1 => q_status[j] \in {"processing", "completed", "failed"})

\* one job failed, one is left in processing by a worker that has moved on,
\* and both workers are polling again with nothing to claim
C18_Witness ==
    /\ q_status[1] = "failed"
    /\ q_status[2] = "processing"
    /\ q_status[3] = "completed"
    /\ \A w \in Workers : w_pc[w] = "poll" /\ w_job[w] = 0
    /\ \A j \in JobIds : q_claims[j] = 1

-----------------------------------------------------------------------------
(* AdaptiveDocumentSearch._generate_queries, called in two runs of the      *)
(* program on the same arguments.  company_name_variations is a Python set  *)
(* of str: the order in which list() walks it is fixed by the run's string  *)
(* hash seed, so each run walks it in some order of its own.                *)

Runs == 1..2

\* the lists a set can be walked as
RECURSIVE Orders(_)
Orders(set) ==
    IF set = {} THEN {<< >>}
    ELSE UNION { {<<x>> \o rest : rest \in Orders(set \ {x})} : x \in set }

\* _extract_domain(company_name): first word, lower case, + ".com"
ExtractDomain(company) ==
    IF company.words # << >> THEN LowerTok(company.words[1]) \o ".com" ELSE ""

\* one query: the template (set, position, which branch of it) and the text
\* substituted into it
Query(idx, pos, form, subject) ==
    [tmpl |-> idx, pos |-> pos, form |-> form, subject |-> subject]

\* list(self.company_name_variations)[:3]
FirstThree(order) == SubSeq(order, 1, Min(3, Len(order)))

\* iteration_idx = (iteration_num - 1) % len(all_queries)
TemplateIndex(iteration_num) == (iteration_num - 1) % NumTemplateSets

\* _generate_queries(company_name, isin, iteration_num), with the set walked
\* in the given order
GenerateQueryTexts(company, id, order, iteration_num) ==
    LET domain == ExtractDomain(company)
        primary_name == IF order # << >> THEN order[1] ELSE company.name
        has_isin == id # None /\ id # ""
        ByIsin(idx, pos) ==
            IF has_isin THEN Query(idx, pos, "isin", id)
            ELSE Query(idx, pos, "name", company.name)
        IsinOrPrimary(idx, pos) ==
            IF has_isin THEN Query(idx, pos, "isin", id)
            ELSE Query(idx, pos, "name", primary_name)
        Primary(idx, pos) == Query(idx, pos, "name", primary_name)
        Site(idx, pos) ==
            IF domain # "" THEN Query(idx, pos, "site", domain)
            ELSE Query(idx, pos, "name", primary_name)
        AllPrimary(idx) == <<Primary(idx, 1), Primary(idx, 2), Primary(idx, 3)>>
        all_queries ==
            << <<ByIsin(0, 1), ByIsin(0, 2), Primary(0, 3)>>,
               AllPrimary(1),
               <<Site(2, 1), Site(2, 2), Site(2, 3)>>,
               <<Primary(3, 1), Primary(3, 2), IsinOrPrimary(3, 3)>>,
               AllPrimary(4), AllPrimary(5), AllPrimary(6), AllPrimary(7),
               [j \in 1..Len(FirstThree(order)) |-> Query(8, j, "name", order[j])],
               <<IsinOrPrimary(9, 1), IsinOrPrimary(9, 2), Primary(9, 3)>> >>
    IN  all_queries[TemplateIndex(iteration_num) + 1]

QueryCompanies ==
    { [name |-> "Acme Global Holdings", words |-> <<"Acme", "Global", "Holdings">>],
      [name |-> "", words |-> << >>] }

\* _extract_core_names of the company; the empty set of a fresh object
VariationsOf(company) ==
    IF company.words = << >> THEN {{""}}
    ELSE {{}, {"acme"}, {"acme", "acme global", "agh"}}

QueryInit ==
    /\ Idle("query")
    /\ g_company \in QueryCompanies
    /\ g_isin \in {None, "", "US0000000000"}
    /\ g_variations \in VariationsOf(g_company)
    /\ g_iteration \in 1..MaxIterationNum
    /\ g_pc = [r \in Runs |-> "start"]
    /\ g_order = [r \in Runs |-> << >>]
    /\ g_queries = [r \in Runs |-> << >>]

\* a run of the program builds the set; its hash seed fixes the walk order
StartRun(r) ==
    /\ g_pc[r] = "start"
    /\ \E order \in Orders(g_variations) : g_order' = [g_order EXCEPT ![r] = order]
    /\ g_pc' = [g_pc EXCEPT ![r] = "generate"]
    /\ UNCHANGED <<g_company, g_isin, g_variations, g_iteration, g_queries, not_query>>

\* the run calls _generate_queries(company_name, isin, iteration_num)
Generate(r) ==
    /\ g_pc[r] = "generate"
    /\ g_queries' = [g_queries EXCEPT ![r] =
          GenerateQueryTexts(g_company, g_isin, g_order[r], g_iteration)]
    /\ g_pc' = [g_pc EXCEPT ![r] = "done"]
    /\ UNCHANGED <<g_company, g_isin, g_variations, g_iteration, g_order, not_query>>

QueryNext == \E r \in Runs : StartRun(r) \/ Generate(r)

QuerySpec == QueryInit /\ [][QueryNext]_vars

\* C23: two runs on the same company name, identifier, variation set and
\* iteration number get the same queries, and the queries of iteration n are
\* those of template set (n - 1) mod 10.
C23_QueriesDeterministic ==
    /\ \A r \in Runs : g_pc[r] = "done" =>
          \A j \in 1..Len(g_queries[r]) :
              g_queries[r][j].tmpl = (g_iteration - 1) % 10
    /\ (\A r \in Runs : g_pc[r] = "done") => g_queries[1] = g_queries[2]

\* C27: whatever the interleaving of the workers' get_pending_jobs calls, a
\* job is locked, claimed and held by one worker at a time and is handed to a
\* worker at most once, so it is assessed at most once.
C27_ClaimedByOneWorker ==
    \A j \in JobIds :
        /\ q_claims[j] <= 1
        /\ Cardinality({w \in Workers : w_job[w] = j}) <= 1
        /\ q_lock[j] # 0 => w_job[q_lock[j]] = j /\ w_pc[q_lock[j]] = "commit"
        /\ q_rows[j] <= 1

\* both workers are inside get_pending_jobs at once, each before its commit,
\* and hold different jobs
C27_Witness ==
    /\ \A w \in Workers : w_pc[w] = "commit"
    /\ w_job[1] # w_job[2]
    /\ \A w \in Workers : q_status[w_job[w]] = "pending" /\ q_lock[w_job[w]] = w

\* C28: a worker whose consecutive-error counter has reached
\* max_consecutive_errors, by failed jobs or by worker-level exceptions, is
\* not processing a job.
C28_StopsAtMaxErrors ==
    \A w \in Workers :
        consecutive_errors[w] >= max_consecutive_errors => w_pc[w] # "process"

-----------------------------------------------------------------------------
(* submit_assessments_for_companies(db), called by several requests at once, *)
(* beside the workers that move the jobs on                                  *)

CompanyIds == 1..NCompanies
Callers == 1..NCallers

Job(company_id, status) == [company_id |-> company_id, status |-> status]

\* db.get_company_jobs(company_id)
GetCompanyJobs(company_id) ==
    {i \in 1..Len(s_jobs) : s_jobs[i].company_id = company_id}

\* any(j['status'] in ['pending', 'processing'] for j in existing_jobs)
HasPending(existing_jobs) ==
    \E i \in existing_jobs : s_jobs[i].status \in {"pending", "processing"}

NoResults == [submitted |-> 0, skipped |-> 0, errors |-> 0]

\* the for loop moves to the next company, or the call returns
NextCompany(t) ==
    /\ s_company' = [s_company EXCEPT ![t] = IF @ < NCompanies THEN @ + 1 ELSE 0]
    /\ s_pc' = [s_pc EXCEPT ![t] = IF s_company[t] < NCompanies THEN "check" ELSE "idle"]

SubmitInit ==
    /\ Idle("submit")
    /\ s_jobs \in {<< >>, <<Job(1, "pending")>>, <<Job(1, "completed"), Job(2, "processing")>>}
    /\ s_pc = [t \in Callers |-> "idle"]
    /\ s_company = [t \in Callers |-> 0]
    /\ s_calls = [t \in Callers |-> 0]
    /\ s_results = [t \in Callers |-> NoResults]

\* a call starts: companies = db.get_all_companies()
BeginSubmit(t) ==
    /\ s_pc[t] = "idle"
    /\ s_calls[t] < MaxCalls
    /\ s_calls' = [s_calls EXCEPT ![t] = @ + 1]
    /\ s_company' = [s_company EXCEPT ![t] = 1]
    /\ s_pc' = [s_pc EXCEPT ![t] = "check"]
    /\ s_results' = [s_results EXCEPT ![t] = NoResults]
    /\ UNCHANGED <<s_jobs, not_submit>>

\* existing_jobs = db.get_company_jobs(..); has_pending: skip, or go on to create
CheckExisting(t) ==
    /\ s_pc[t] = "check"
    /\ IF HasPending(GetCompanyJobs(s_company[t]))
       THEN /\ s_results' = [s_results EXCEPT ![t].skipped = @ + 1]
            /\ NextCompany(t)
       ELSE /\ s_pc' = [s_pc EXCEPT ![t] = "create"]
            /\ UNCHANGED <<s_company, s_results>>
    /\ UNCHANGED <<s_jobs, s_calls, not_submit>>

\* job_id = db.create_assessment_job(company['id'])
CreateAssessmentJob(t) ==
    /\ s_pc[t] = "create"
    /\ Len(s_jobs) < MaxJobRows
    /\ s_jobs' = Append(s_jobs, Job(s_company[t], "pending"))
    /\ s_results' = [s_results EXCEPT ![t].submitted = @ + 1]
    /\ NextCompany(t)
    /\ UNCHANGED <<s_calls, not_submit>>

\* get_company_jobs or create_assessment_job raises: results['errors'] += 1
SubmitRaises(t) ==
    /\ s_pc[t] \in {"check", "create"}
    /\ s_results' = [s_results EXCEPT ![t].errors = @ + 1]
    /\ NextCompany(t)
    /\ UNCHANGED <<s_jobs, s_calls, not_submit>>

\* a worker moves a job on: get_pending_jobs, update_job_status
AdvanceJob ==
    /\ \E i \in 1..Len(s_jobs) :
          \E status \in {"processing", "completed", "failed"} :
              /\ <<s_jobs[i].status, status>> \in StatusMoves
              /\ s_jobs' = [s_jobs EXCEPT ![i].status = status]
    /\ UNCHANGED <<s_pc, s_company, s_calls, s_results, not_submit>>

SubmitNext ==
    \/ \E t \in Callers : BeginSubmit(t)
    \/ \E t \in Callers : CheckExisting(t)
    \/ \E t \in Callers : CreateAssessmentJob(t)
    \/ \E t \in Callers : SubmitRaises(t)
    \/ AdvanceJob

SubmitSpec == SubmitInit /\ [][SubmitNext]_vars

\* the jobs of a company in status pending or processing
OpenJobs(company_id) ==
    {i \in GetCompanyJobs(company_id) : s_jobs[i].status \in {"pending", "processing"}}

\* C30: after any number of submit-all calls, concurrent ones included, every
\* company has at most one job in status pending or processing.
C30_OneOpenJobPerCompany ==
    \A c \in CompanyIds : Cardinality(OpenJobs(c)) <= 1

====
